---- MODULE Spec2Model ----
(***************************************************************************)
(* RPiNWR: the SAMEMessage aggregation state machine                       *)
(* (src/RPiNWR/messages/SAME.py) and the MessageCache event handlers       *)
(* (src/RPiNWR/messages/cache.py).                                         *)
(*                                                                         *)
(* Time is counted in whole seconds.  Every reading of time.time() is a    *)
(* value of the variable now, which never decreases.                       *)
(***************************************************************************)
EXTENDS Integers, Sequences, FiniteSets, TLC

VARIABLES
    now,                \* the clock: the last value time.time() / clock() returned
    kind,               \* how the SAMEMessage was constructed: "new" or "literal"
    headers,            \* SAMEMessage.headers
    timeout,            \* SAMEMessage.timeout
    received_callback,  \* TRUE while SAMEMessage.received_callback is not None
    avg_message,        \* SAMEMessage.__avg_message (None is <<>>)
    ret,                \* what the last call on the SAMEMessage did and returned
    cb_calls,           \* history: how many times the callback was invoked
    true_returns,       \* history: how many fully_received calls returned True,
                        \*   counted up to 2
    made_so,            \* history: fully_received(make_it_so=True) has been called
    avg_calls,          \* history: how many times average_message was called
                        \*   by get_SAME_message on a complete message
    messages,           \* MessageCache.__messages: the groups, in insertion order
    old_score,          \* MessageCache.__old_score
    queue,              \* the events fired and not yet handled, oldest first
    handled,            \* what the last step of the cache did
    last_emitted,       \* history: the score of the last new_score fired, 0 if none
    args,               \* the object and the arguments of a call of a function
                        \*   that is examined on its own
    result,             \* what that call returned
    pc,                 \* where the ingestion thread and the tick thread are
    messages_lock,      \* MessageCache.__messages_lock: the thread that holds
                        \*   it, or "free"
    locals              \* the local variables of the two threads, and history

msgVars == <<kind, headers, timeout, received_callback, avg_message, ret,
             cb_calls, true_returns, made_so, avg_calls>>

cacheVars == <<messages, old_score, queue, handled, last_emitted>>

\* the variables the SAMEMessage and MessageCache state machines do not use
threadVars == <<pc, messages_lock, locals>>
auxVars == <<args, result, threadVars>>

-----------------------------------------------------------------------------
(* Bounds of the model *)

\* the clock stops at MaxTime
MaxTime == 9
\* the resolution of the clock: its readings are 1, 1 + ClockStep, ...
ClockStep == 2
\* the clock may advance by up to MaxDelay steps between two readings within
\* one call
MaxDelay == 1
\* get_SAME_message is called at most MaxAvgCalls times on a complete message
\* whose average is not cached
MaxAvgCalls == 2

Delays == { k * ClockStep : k \in 0..MaxDelay }

\* the clock of the cache stops at CacheMaxTime
CacheMaxTime == 6
\* at most MaxQueue events wait to be handled
MaxQueue == 2

-----------------------------------------------------------------------------
(* Program constants *)

\* add_header and fully_received set timeout = time.time() + 6
TimeoutSecs == 6
\* float("-inf"): every clock reading is at least 1, so -1 is below all of them
NegInf == -1

\* the canonical header -WXR-TOR-039173-039051-139069+0030-1591829-KCLE/NWS-
Literal ==
    <<"-", "W", "X", "R", "-", "T", "O", "R", "-", "0", "3", "9", "1", "7", "3",
      "-", "0", "3", "9", "0", "5", "1", "-", "1", "3", "9", "0", "6", "9", "+",
      "0", "0", "3", "0", "-", "1", "5", "9", "1", "8", "2", "9", "-", "K", "C",
      "L", "E", "/", "N", "W", "S", "-">>

\* None
None == <<>>
\* Python's list(l): the items of l, each computed once
list(l) == l \o <<>>
\* the pair ("", []) that get_SAME_message returns when nothing was received
EmptyMessage == << <<>>, <<>> >>

-----------------------------------------------------------------------------
(* Inputs *)

\* headers as the radio driver hands them over: bytes (as code points) and a
\* confidence that is either a string of digits or a list of integers
HeaderInputs ==
    { [header |-> <<45, 0>>,   confidence |-> [is_str |-> FALSE, digits |-> <<9, 0>>]],
      [header |-> <<200, 31>>, confidence |-> [is_str |-> TRUE,  digits |-> <<3, 1>>]] }

\* what the received_callback does when it is invoked: return at once, or call
\* fully_received again on the message it is handed
NoCall == [call |-> FALSE, make_it_so |-> FALSE, extend_timeout |-> FALSE]
CallbackBodies ==
    {NoCall} \cup
    { [call |-> TRUE, make_it_so |-> m, extend_timeout |-> e] : m, e \in BOOLEAN }

-----------------------------------------------------------------------------
(* unicodify: SAME.py 1038-1056 *)

unicodify_char(c) ==
    IF c = 0 THEN 10752                     \* the circled dot operator
    ELSE IF c <= 31 THEN c + 9216           \* c | 0x2400
    ELSE IF c > 126 THEN (c % 256) + 7680   \* (c & 0xFF) | 0x1E00
    ELSE c

unicodify(str) == [i \in 1..Len(str) |-> unicodify_char(str[i])]

DigitChar == <<"0", "1", "2", "3", "4", "5", "6", "7", "8", "9">>

\* add_header 811-814: a confidence that is not a string is joined into one
confidence_str(confidence) ==
    [i \in 1..Len(confidence.digits) |-> DigitChar[confidence.digits[i] + 1]]

-----------------------------------------------------------------------------
(* The SAMEMessage object *)

Self ==
    [headers |-> headers, timeout |-> timeout,
     received_callback |-> received_callback, avg_message |-> avg_message,
     cb_calls |-> cb_calls, made_so |-> made_so]

\* the slip of leaving the callback in place after taking it
Mut_ClearCallback(self) == self

\* fully_received 832: self.received_callback = None
ClearCallback(self) == [self EXCEPT !.received_callback = FALSE]

\* the slip of waiting for one header more
Mut_IsComplete(self, t) == self.timeout < t \/ Len(self.headers) > 3

\* fully_received 829: complete = self.timeout < time.time() or len(self.headers) >= 3
IsComplete(self, t) == self.timeout < t \/ Len(self.headers) >= 3

\* the slip of ignoring make_it_so
Mut_ForceTimeout(self, make_it_so) == self

\* fully_received 827-828
ForceTimeout(self, make_it_so) ==
    IF make_it_so THEN [self EXCEPT !.timeout = NegInf] ELSE self

\* the slip of extending the timeout of a message that is already complete
Mut_ExtendTimeout(self, complete, extend_timeout, t) ==
    IF extend_timeout
    THEN [self EXCEPT !.timeout = t + TimeoutSecs]
    ELSE self

\* fully_received 834-835
ExtendTimeout(self, complete, extend_timeout, t) ==
    IF ~complete /\ extend_timeout
    THEN [self EXCEPT !.timeout = t + TimeoutSecs]
    ELSE self

\* fully_received 821-836.  t is the clock reading of line 829, t + d the one of
\* line 835; body is what the callback does if this call invokes it.
RECURSIVE fully_received(_, _, _, _, _, _)
fully_received(self, make_it_so, extend_timeout, t, d, body) ==
    LET s1 == [ForceTimeout(self, make_it_so) EXCEPT !.made_so = @ \/ make_it_so]
        complete == IsComplete(s1, t)
        s2 == IF complete /\ s1.received_callback
              THEN LET cb == [ClearCallback(s1) EXCEPT !.cb_calls = @ + 1]
                   IN  IF body.call
                       THEN fully_received(cb, body.make_it_so, body.extend_timeout,
                                           t, d, NoCall).self
                       ELSE cb
              ELSE s1
    IN  [self |-> ExtendTimeout(s2, complete, extend_timeout, t + d),
         complete |-> complete]

\* average_message 644-747 on the headers a SAMEMessage collects.  With no
\* header, headers[0][2] (670) raises IndexError; with headers, each is the
\* tuple add_header appended (815), and the item assignment i[0] = split_msg
\* (693) raises TypeError unless split_message raised before it: a first
\* header shorter than 12 bytes, as those of HeaderInputs are, has no byte
\* at len(message) - 23 (370), which raises IndexError.
average_message(hdrs, transmitter) ==
    IF Len(hdrs) = 0
    THEN [raised |-> "IndexError", value |-> None]
    ELSE IF 2 * Len(hdrs[1][1]) < 23
    THEN [raised |-> "IndexError", value |-> None]
    ELSE [raised |-> "TypeError", value |-> None]

\* get_SAME_message 838-850
get_SAME_message(self, t, d, body) ==
    LET fr == fully_received(self, FALSE, FALSE, t, d, body)
        s1 == fr.self
    IN  IF fr.complete
        THEN IF s1.avg_message = None
             THEN LET am == average_message(s1.headers, "transmitter")
                  IN  IF am.raised # "none"
                      THEN [self |-> s1, raised |-> am.raised, value |-> None, averaged |-> 1]
                      ELSE [self |-> [s1 EXCEPT !.avg_message = am.value],
                            raised |-> "none", value |-> am.value, averaged |-> 1]
             ELSE [self |-> s1, raised |-> "none", value |-> s1.avg_message, averaged |-> 0]
        ELSE IF Len(s1.headers) > 0
             \* 848: average_message(self.headers) lacks the transmitter argument
             THEN [self |-> s1, raised |-> "TypeError", value |-> None, averaged |-> 0]
             ELSE [self |-> s1, raised |-> "none", value |-> EmptyMessage, averaged |-> 0]

\* the slip of appending without the check of line 808
Mut_add_header_unchecked(self, header, confidence, t, d, body) ==
    LET s1 == fully_received(self, FALSE, FALSE, t, d, body).self
        when == t + d
    IN  [self |-> [s1 EXCEPT
                     !.headers = Append(@, <<unicodify(header),
                                             confidence_str(confidence), when>>),
                     !.timeout = when + TimeoutSecs],
         raised |-> "none"]

\* the slip of stamping the header with the time of the check and of putting
\* it in front
Mut_add_header_front(self, header, confidence, t, d, body) ==
    LET fr == fully_received(self, FALSE, FALSE, t, d, body)
        s1 == fr.self
    IN  IF fr.complete
        THEN [self |-> s1, raised |-> "ValueError"]
        ELSE [self |-> [s1 EXCEPT
                          !.headers = <<<<unicodify(header),
                                          confidence_str(confidence), t>>>> \o @,
                          !.timeout = t + TimeoutSecs],
              raised |-> "none"]

\* add_header 807-816.  t is the clock reading inside fully_received, t + d the
\* one of line 810.
add_header(self, header, confidence, t, d, body) ==
    LET fr == fully_received(self, FALSE, FALSE, t, d, body)
        s1 == fr.self
        when == t + d
    IN  IF fr.complete
        THEN [self |-> s1, raised |-> "ValueError"]
        ELSE [self |-> [s1 EXCEPT
                          !.headers = Append(@, <<unicodify(header),
                                                  confidence_str(confidence), when>>),
                          !.timeout = when + TimeoutSecs],
              raised |-> "none"]

-----------------------------------------------------------------------------
(* The MessageCache: cache.py *)

\* the location the cache is configured with: location['fips6']
County == <<0, 3, 7, 1, 8, 3>>
Elsewhere == <<0, 3, 7, 0, 6, 3>>

\* The messages that are submitted to the cache.  uid names the instance;
\* start and duration are what get_start_time_sec and get_duration_sec return;
\* counties is get_counties(); polygon says whether the message's container
\* has a polygon and whether it contains the cache's (lat, lon).  All messages
\* of one event_id carry the same event type.
CacheMessages ==
    << [uid |-> 1, event_id |-> "SVR", event_type |-> "SVR", counties |-> <<County>>,
        start |-> 1, duration |-> 4, polygon |-> "none"],
       [uid |-> 2, event_id |-> "TOR", event_type |-> "TOR", counties |-> <<County>>,
        start |-> 1, duration |-> 2, polygon |-> "none"],
       [uid |-> 3, event_id |-> "TOA", event_type |-> "TOA", counties |-> <<Elsewhere>>,
        start |-> 2, duration |-> 2, polygon |-> "none"],
       [uid |-> 4, event_id |-> "TO.W", event_type |-> "TO.W", counties |-> <<County>>,
        start |-> 1, duration |-> 3, polygon |-> "outside"],
       [uid |-> 5, event_id |-> "TO.W", event_type |-> "TO.W", counties |-> <<County>>,
        start |-> 2, duration |-> 3, polygon |-> "inside"],
       [uid |-> 6, event_id |-> "TO.W", event_type |-> "TO.W", counties |-> <<County>>,
        start |-> 2, duration |-> 2, polygon |-> "none"],
       [uid |-> 7, event_id |-> "SV.W", event_type |-> "SV.W", counties |-> <<County>>,
        start |-> 1, duration |-> 4, polygon |-> "none"],
       [uid |-> 8, event_id |-> "TOR2", event_type |-> "TOR", counties |-> <<County>>,
        start |-> 2, duration |-> 2, polygon |-> "none"],
       [uid |-> 9, event_id |-> "TO.W", event_type |-> "TO.W", counties |-> <<Elsewhere>>,
        start |-> 1, duration |-> 4, polygon |-> "none"] >>

\* the messages that reach the cache as new_message events
Uids == 1..4

\* default_message_scores 40-45 and message_scores.get(event_type, 0)
message_scores(event_type) ==
    CASE event_type \in {"SVA", "SV.A"} -> 20
      [] event_type \in {"SVR", "SV.W"} -> 30
      [] event_type \in {"TOA", "TO.A"} -> 35
      [] event_type = "TOR" -> 40
      [] event_type = "TO.W" -> 45
      [] OTHER -> 0

\* SAMEMessage.get_end_time_sec 886-887
get_end_time_sec(m) == m.start + m.duration

\* SAMEMessage.applies_to_fips 889-912 on the FIPS slots of the message
applies_to_fips(m, fips) ==
    LET fips6 == IF Len(fips) = 5 THEN <<0>> \o fips ELSE fips
    IN  \E i \in 1..Len(m.counties) :
            /\ \A x \in 2..6 : m.counties[i][x] = fips6[x]
            /\ (fips6[1] = 0 \/ m.counties[i][1] = 0 \/ fips6[1] = m.counties[i][1])

RECURSIVE SelectSeq2(_, _, _)
\* filter(lambda m: ..., self.messages), keeping the order
SelectSeq2(seq, fips, t) ==
    IF seq = <<>> THEN <<>>
    ELSE LET m == CacheMessages[Head(seq)]
             rest == SelectSeq2(Tail(seq), fips, t)
         IN  IF applies_to_fips(m, fips) /\ get_end_time_sec(m) > t /\ m.start <= t
             THEN <<Head(seq)>> \o rest
             ELSE rest

\* the slip of returning the first message in effect instead of the latest
Mut_is_effective_here(group, latlon, fips, t) ==
    LET cm == SelectSeq2(group.messages, fips, t)
        last == CacheMessages[cm[Len(cm)]]
        its_here == IF cm # <<>> /\ latlon
                    THEN last.polygon \in {"none", "inside"}
                    ELSE cm # <<>>
    IN  IF its_here THEN <<cm[1]>> ELSE <<>>

\* EventMessageGroup.is_effective 223-259 with test_for_here=True: the sequence
\* holding the message returned, empty when the result is false
is_effective_here(group, latlon, fips, t) ==
    LET cm == SelectSeq2(group.messages, fips, t)
        last == CacheMessages[cm[Len(cm)]]
        its_here == IF cm # <<>> /\ latlon
                    THEN last.polygon \in {"none", "inside"}
                    ELSE cm # <<>>
    IN  IF its_here THEN <<cm[Len(cm)]>> ELSE <<>>

\* the slip of returning, for elsewhere, the message whose polygon holds the point
Mut_is_effective(group, latlon, fips, test_for_here, t) ==
    LET cm == SelectSeq2(group.messages, fips, t)
        last == CacheMessages[cm[Len(cm)]]
        has_polygon == cm # <<>> /\ latlon /\ last.polygon # "none"
        its_here == IF cm # <<>> /\ latlon
                    THEN last.polygon \in {"none", "inside"}
                    ELSE cm # <<>>
        others == { a \in group.areas :
                      a # fips /\ is_effective_here(group, FALSE, a, t) # <<>> }
    IN  IF test_for_here
        THEN is_effective_here(group, latlon, fips, t)
        ELSE IF has_polygon
             THEN IF its_here THEN <<cm[Len(cm)]>> ELSE <<>>
             ELSE IF its_here
                  THEN <<>>
                  ELSE IF others = {}
                       THEN <<>>
                       ELSE is_effective_here(group, FALSE, CHOOSE a \in others : TRUE, t)

\* the slip of asking the neighbouring areas although a message is in effect here
Mut_is_effective_neighbours(group, latlon, fips, test_for_here, t) ==
    LET cm == SelectSeq2(group.messages, fips, t)
        last == CacheMessages[cm[Len(cm)]]
        has_polygon == cm # <<>> /\ latlon /\ last.polygon # "none"
        its_here == IF cm # <<>> /\ latlon
                    THEN last.polygon \in {"none", "inside"}
                    ELSE cm # <<>>
        others == { a \in group.areas :
                      a # fips /\ is_effective_here(group, FALSE, a, t) # <<>> }
    IN  IF test_for_here
        THEN is_effective_here(group, latlon, fips, t)
        ELSE IF has_polygon
             THEN IF its_here THEN <<>> ELSE <<cm[Len(cm)]>>
             ELSE IF others = {}
                  THEN <<>>
                  ELSE is_effective_here(group, FALSE, CHOOSE a \in others : TRUE, t)

\* EventMessageGroup.is_effective 223-273
is_effective(group, latlon, fips, test_for_here, t) ==
    LET cm == SelectSeq2(group.messages, fips, t)
        last == CacheMessages[cm[Len(cm)]]
        has_polygon == cm # <<>> /\ latlon /\ last.polygon # "none"
        its_here == IF cm # <<>> /\ latlon
                    THEN last.polygon \in {"none", "inside"}
                    ELSE cm # <<>>
        others == { a \in group.areas :
                      a # fips /\ is_effective_here(group, FALSE, a, t) # <<>> }
    IN  IF test_for_here
        THEN is_effective_here(group, latlon, fips, t)
        ELSE IF has_polygon
             THEN IF its_here THEN <<>> ELSE <<cm[Len(cm)]>>
             ELSE IF its_here
                  THEN <<>>
                  ELSE IF others = {}
                       THEN <<>>
                       \* the first area, in the iteration order of the set,
                       \* for which a message is in effect
                       ELSE is_effective_here(group, FALSE, CHOOSE a \in others : TRUE, t)

\* the slip of comparing the start times the other way round
Mut_by_score_and_time(a, b) ==
    LET delta == b.score - a.score
    IN  IF delta # 0 THEN delta ELSE CacheMessages[a.msg].start - CacheMessages[b.msg].start

\* by_score_and_time 48-55 on ScoredMessages
by_score_and_time(a, b) ==
    LET delta == b.score - a.score
    IN  IF delta # 0 THEN delta ELSE CacheMessages[b.msg].start - CacheMessages[a.msg].start

RECURSIVE Insert(_, _)
\* x put into the sorted list after every element that does not compare
\* greater than it
Insert(sorted, x) ==
    IF sorted = <<>> THEN <<x>>
    ELSE IF by_score_and_time(Head(sorted), x) <= 0
         THEN <<Head(sorted)>> \o Insert(Tail(sorted), x)
         ELSE <<x>> \o sorted

RECURSIVE Sort(_)
\* list.sort(key=functools.cmp_to_key(self.sorter)): a stable sort
Sort(l) == IF l = <<>> THEN <<>> ELSE Insert(Sort(SubSeq(l, 1, Len(l) - 1)), l[Len(l)])

RECURSIVE ActiveList(_, _, _)
\* get_active_messages 173-179: a ScoredMessage for every group that is in
\* effect, in the order of the groups
ActiveList(groups, here, t) ==
    IF groups = <<>> THEN <<>>
    ELSE LET m == is_effective(Head(groups), TRUE, County, here, t)
             rest == ActiveList(Tail(groups), here, t)
         IN  IF m = <<>> THEN rest
             ELSE <<[msg |-> m[1],
                     score |-> message_scores(CacheMessages[m[1]].event_type)]>> \o rest

\* MessageCache.get_active_messages 160-181
get_active_messages(groups, here, t) == Sort(ActiveList(groups, here, t))

RECURSIVE MaxScore(_, _, _)
\* make_new_scores 153-154: max(chain([scores + score_adj], [score]))
MaxScore(active, score_adj, score) ==
    IF active = <<>> THEN score
    ELSE LET s == message_scores(CacheMessages[Head(active).msg].event_type) + score_adj
             r == MaxScore(Tail(active), score_adj, score)
         IN  IF s > r THEN s ELSE r

\* the slip of forgetting the messages that are in effect elsewhere
Mut_top_score(groups, t) == MaxScore(get_active_messages(groups, TRUE, t), 0, 0)

\* make_new_scores 147-154: the top score
top_score(groups, t) ==
    LET here == MaxScore(get_active_messages(groups, TRUE, t), 0, 0)
    IN  MaxScore(get_active_messages(groups, FALSE, t), -10, here)

\* the slip of not remembering the score that was emitted
Mut_remember_score(old, score) == old

\* make_new_scores 158: self.__old_score = score
remember_score(old, score) == score

\* EventMessageGroup.get_end_time_sec 278-279
group_end_time_sec(group) ==
    get_end_time_sec(CacheMessages[group.messages[Len(group.messages)]])

\* the slip of leaving out the test for a message that is already stored
Mut_group_add_message(group, uid) ==
    [group EXCEPT
        !.messages = Append(@, uid),
        !.areas = @ \cup { CacheMessages[uid].counties[i] :
                              i \in 1..Len(CacheMessages[uid].counties) }]

\* EventMessageGroup.add_message 195-201
group_add_message(group, uid) ==
    IF \E i \in 1..Len(group.messages) : group.messages[i] = uid
    THEN group
    ELSE [group EXCEPT
            !.messages = Append(@, uid),
            !.areas = @ \cup { CacheMessages[uid].counties[i] :
                                  i \in 1..Len(CacheMessages[uid].counties) }]

\* MessageCache.add_message 114-121: the groups after the message is added
cache_add_message(groups, uid) ==
    LET id == CacheMessages[uid].event_id
        at == { i \in 1..Len(groups) : groups[i].event_id = id }
    IN  IF at = {}
        THEN Append(groups, group_add_message(
                 [event_id |-> id, messages |-> <<>>, areas |-> {}], uid))
        ELSE [i \in 1..Len(groups) |->
                 IF i \in at THEN group_add_message(groups[i], uid) ELSE groups[i]]

\* MessageCache._get_first_expiry 134-140; Infinity stands for float("inf")
Infinity == 1000000
get_first_expiry(groups) ==
    IF Len(groups) > 0
    THEN CHOOSE e \in { group_end_time_sec(groups[i]) : i \in 1..Len(groups) } :
             \A i \in 1..Len(groups) : e <= group_end_time_sec(groups[i])
    ELSE Infinity

RECURSIVE Mut_Unexpired(_, _)
\* the slip of also dropping the groups that end at this very moment
Mut_Unexpired(groups, t) ==
    IF groups = <<>> THEN <<>>
    ELSE IF group_end_time_sec(Head(groups)) > t
         THEN <<Head(groups)>> \o Mut_Unexpired(Tail(groups), t)
         ELSE Mut_Unexpired(Tail(groups), t)

RECURSIVE Unexpired(_, _)
\* _generate_events 131: the groups whose end time is not before now
Unexpired(groups, t) ==
    IF groups = <<>> THEN <<>>
    ELSE IF group_end_time_sec(Head(groups)) >= t
         THEN <<Head(groups)>> \o Unexpired(Tail(groups), t)
         ELSE Unexpired(Tail(groups), t)

Idle == [event |-> "none", fired |-> FALSE]

\* MessageCache.__init__ 88-105
InitCache ==
    /\ messages = <<>>
    /\ old_score = 0
    /\ queue = <<>>
    /\ handled = Idle
    /\ last_emitted = 0

InitClock == now = 1

\* no function is examined on its own
\* no thread is running
InitNoThreads == pc = None /\ messages_lock = "free" /\ locals = None

InitAux == args = None /\ result = None /\ InitNoThreads

\* the msgVars are not used by the cache
InitNoMsg ==
    /\ kind = "none" /\ headers = <<>> /\ timeout = 0 /\ received_callback = FALSE
    /\ avg_message = None /\ cb_calls = 0 /\ true_returns = 0 /\ made_so = FALSE
    /\ avg_calls = 0
    /\ ret = [op |-> "none", raised |-> "none", complete |-> FALSE, value |-> None]

\* the clock advances
CacheTick ==
    /\ now < CacheMaxTime
    /\ now' = now + 1
    /\ handled' = [Idle EXCEPT !.event = "tick"]
    /\ UNCHANGED <<messages, old_score, queue, last_emitted, msgVars>>
    /\ UNCHANGED auxVars

\* a message source fires new_message(message).  The message that
\* update_score and new_score carry is handed on and never read by the cache;
\* the events of the model do not carry it.
FireNewMessage ==
    \E uid \in Uids :
        /\ Len(queue) < MaxQueue
        /\ queue' = Append(queue, [name |-> "new_message", uid |-> uid])
        /\ handled' = [Idle EXCEPT !.event = "fire"]
        /\ UNCHANGED <<now, messages, old_score, last_emitted, msgVars>>
        /\ UNCHANGED auxVars

\* the timer fires generate_events
FireGenerateEvents ==
    /\ Len(queue) < MaxQueue
    /\ queue' = Append(queue, [name |-> "generate_events", uid |-> 0])
    /\ handled' = [Idle EXCEPT !.event = "fire"]
    /\ UNCHANGED <<now, messages, old_score, last_emitted, msgVars>>
    /\ UNCHANGED auxVars

\* add_message 107-122, the handler of new_message
HandleNewMessage ==
    /\ queue # <<>> /\ Head(queue).name = "new_message"
    /\ messages' = cache_add_message(messages, Head(queue).uid)
    /\ queue' = Append(Tail(queue), [name |-> "update_score", uid |-> 0])
    /\ handled' = [Idle EXCEPT !.event = "new_message"]
    /\ UNCHANGED <<now, old_score, last_emitted, msgVars>>
    /\ UNCHANGED auxVars

\* _generate_events 124-132, the handler of generate_events
HandleGenerateEvents ==
    /\ queue # <<>> /\ Head(queue).name = "generate_events"
    /\ LET first_expiry == get_first_expiry(messages)
       IN  IF first_expiry < now
           THEN /\ messages' = Unexpired(messages, now)
                /\ queue' = Append(Tail(queue), [name |-> "update_score", uid |-> 0])
                /\ handled' = [Idle EXCEPT !.event = "generate_events", !.fired = TRUE]
           ELSE /\ messages' = messages
                /\ queue' = Tail(queue)
                /\ handled' = [Idle EXCEPT !.event = "generate_events"]
    /\ UNCHANGED <<now, old_score, last_emitted, msgVars>>
    /\ UNCHANGED auxVars

\* make_new_scores 142-158, the handler of update_score
HandleUpdateScore ==
    /\ queue # <<>> /\ Head(queue).name = "update_score"
    /\ LET score == top_score(messages, now)
       IN  IF score # old_score
           THEN /\ last_emitted' = score
                /\ old_score' = remember_score(old_score, score)
                /\ handled' = [event |-> "update_score", fired |-> TRUE]
           ELSE /\ UNCHANGED <<last_emitted, old_score>>
                /\ handled' = [event |-> "update_score", fired |-> FALSE]
    /\ queue' = Tail(queue)
    /\ UNCHANGED <<now, messages, msgVars>>
    /\ UNCHANGED auxVars

-----------------------------------------------------------------------------
(* The SAMEMessage state machine *)

Store(self) ==
    /\ headers' = self.headers
    /\ timeout' = self.timeout
    /\ received_callback' = self.received_callback
    /\ avg_message' = self.avg_message
    /\ cb_calls' = self.cb_calls
    /\ made_so' = self.made_so

\* the bodies a callback can have: a message without a callback has none to run
Bodies == IF received_callback THEN CallbackBodies ELSE {NoCall}

NoRet == [op |-> "none", raised |-> "none", complete |-> FALSE, value |-> None]

\* __init__ 767-805: a new, empty message, or one made from a header literal.
\* The literal constructor calls get_start_time_sec (790) while timeout is
\* still 0 (783), so a callback that was passed in is invoked there.
InitMsg ==
    /\ now = 1
    /\ kind \in {"new", "literal"}
    /\ headers = <<>>
    /\ ret = NoRet
    /\ true_returns = 0
    /\ made_so = FALSE
    /\ avg_calls = 0
    /\ \E given \in BOOLEAN :
         IF kind = "new"
         THEN /\ timeout = now + TimeoutSecs
              /\ received_callback = given
              /\ avg_message = None
              /\ cb_calls = 0
         ELSE /\ timeout = NegInf
              /\ received_callback = FALSE
              /\ avg_message = <<Literal, [i \in 1..Len(Literal) |-> "9"]>>
              /\ cb_calls = IF given THEN 1 ELSE 0

Tick ==
    /\ now + ClockStep <= MaxTime
    /\ now' = now + ClockStep
    /\ ret' = [NoRet EXCEPT !.op = "tick"]
    /\ UNCHANGED cacheVars
    /\ UNCHANGED <<kind, headers, timeout, received_callback, avg_message,
                   cb_calls, true_returns, made_so, avg_calls>>
    /\ UNCHANGED auxVars

AddHeader ==
    \E h \in HeaderInputs, d \in Delays, body \in Bodies :
        /\ now + d <= MaxTime
        /\ LET r == add_header(Self, h.header, h.confidence, now, d, body)
           IN  /\ Store(r.self)
               /\ ret' = [NoRet EXCEPT !.op = "add_header", !.raised = r.raised]
        /\ now' = now + d
        /\ UNCHANGED <<kind, true_returns, avg_calls>>
        /\ UNCHANGED cacheVars
        /\ UNCHANGED auxVars

FullyReceived ==
    \E m, e \in BOOLEAN, d \in Delays, body \in Bodies :
        /\ now + d <= MaxTime
        /\ LET r == fully_received(Self, m, e, now, d, body)
           IN  /\ Store(r.self)
               /\ ret' = [NoRet EXCEPT !.op = "fully_received", !.complete = r.complete]
               /\ true_returns' = IF r.complete /\ true_returns < 2
                                  THEN true_returns + 1 ELSE true_returns
        /\ now' = now + d
        /\ UNCHANGED <<kind, avg_calls>>
        /\ UNCHANGED cacheVars
        /\ UNCHANGED auxVars

GetSAMEMessage ==
    \E body \in Bodies :
        LET r == get_SAME_message(Self, now, 0, body)
        IN  /\ avg_calls + r.averaged <= MaxAvgCalls
            /\ Store(r.self)
            /\ ret' = [NoRet EXCEPT !.op = "get_SAME_message", !.raised = r.raised,
                                    !.value = r.value]
            /\ avg_calls' = avg_calls + r.averaged
            /\ UNCHANGED <<now, kind, true_returns>>
            /\ UNCHANGED cacheVars
            /\ UNCHANGED auxVars

vars == <<now, msgVars, cacheVars, auxVars>>

Next == Tick \/ AddHeader \/ FullyReceived \/ GetSAMEMessage

\* a SAMEMessage under construction; the cache stays as it was built
Init == InitMsg /\ InitCache /\ InitAux

Spec == Init /\ [][Next]_vars

NextCache ==
    \/ CacheTick
    \/ FireNewMessage
    \/ FireGenerateEvents
    \/ HandleNewMessage
    \/ HandleGenerateEvents
    \/ HandleUpdateScore

InitOfCache == InitClock /\ InitNoMsg /\ InitCache /\ InitAux

\* the MessageCache handling its events one at a time
SpecCache == InitOfCache /\ [][NextCache]_vars

-----------------------------------------------------------------------------
(* A SAMEMessage made from a header literal: SAME.py 767-805, 852-912 *)

\* the number of FIPS slots of the headers examined is at most MaxSlots
MaxSlots == 2

SecsPerMinute == 60
SecsPerHour == 3600
SecsPerDay == 86400
DaysPerYear == 365
EpochYear == 1970

\* Python's str.find: the 0-based index of the first c in m, -1 if there is none
find(m, c) ==
    IF \E i \in 1..Len(m) : m[i] = c
    THEN (CHOOSE i \in 1..Len(m) : m[i] = c /\ \A j \in 1..(i - 1) : m[j] # c) - 1
    ELSE -1

\* Python's m[a:b] for a >= 0; a negative b counts from the end
slice(m, a, b) ==
    LET e == IF b < 0 THEN Len(m) + b ELSE IF b > Len(m) THEN Len(m) ELSE b
    IN  SubSeq(m, a + 1, e)

RECURSIVE split(_, _)
\* Python's m.split(sep) for a separator of one character
split(m, sep) ==
    LET at == find(m, sep)
    IN  IF at = -1 THEN <<m>>
        ELSE <<slice(m, 0, at)>> \o split(slice(m, at + 1, Len(m)), sep)

IsDigit(c) == \E d \in 1..10 : DigitChar[d] = c
DigitValue(c) == (CHOOSE d \in 1..10 : DigitChar[d] = c) - 1

RECURSIVE int(_)
\* Python's int(str) on a string of decimal digits
int(str) ==
    IF str = <<>> THEN 0
    ELSE 10 * int(SubSeq(str, 1, Len(str) - 1)) + DigitValue(str[Len(str)])

\* time.gmtime(t): tm_year and tm_yday.  Years of DaysPerYear days: exact from
\* 1969 to the end of February 1972, which covers every instant examined.
gmtime(t) ==
    LET days == t \div SecsPerDay
    IN  [tm_year |-> EpochYear + (days \div DaysPerYear),
         tm_yday |-> (days % DaysPerYear) + 1]

\* calendar.timegm(time.strptime(str(year) + jjjhhmm + 'UTC', '%Y%j%H%M%Z')),
\* under the same calendar
timegm(year, jjjhhmm) ==
    ((year - EpochYear) * DaysPerYear + int(slice(jjjhhmm, 0, 3)) - 1) * SecsPerDay
    + int(slice(jjjhhmm, 3, 5)) * SecsPerHour
    + int(slice(jjjhhmm, 5, 7)) * SecsPerMinute

\* what an accessor returns: value, unless get_SAME_message raised
Returned(r, value) ==
    IF r.raised # "none"
    THEN [raised |-> r.raised, value |-> None]
    ELSE [raised |-> "none", value |-> value]

\* get_originator 852-853
originator_of(m) == slice(m, 1, 4)
get_originator(self, t) ==
    LET r == get_SAME_message(self, t, 0, NoCall)
    IN  Returned(r, originator_of(r.value[1]))

\* the slip of counting the characters from 1
Mut_event_type_of(m) == slice(m, 4, 7)

\* get_event_type 855-856
event_type_of(m) == slice(m, 5, 8)
get_event_type(self, t) ==
    LET r == get_SAME_message(self, t, 0, NoCall)
    IN  Returned(r, event_type_of(r.value[1]))

\* get_counties 858-860
counties_of(m) == split(slice(m, 9, find(m, "+")), "-")
get_counties(self, t) ==
    LET r == get_SAME_message(self, t, 0, NoCall)
    IN  Returned(r, counties_of(r.value[1]))

\* get_duration_str 862-865
duration_str_of(m) ==
    LET start == find(m, "+") + 1
    IN  slice(m, start, start + 4)
get_duration_str(self, t) ==
    LET r == get_SAME_message(self, t, 0, NoCall)
    IN  Returned(r, duration_str_of(r.value[1]))

\* get_start_time_str 867-870
start_time_str_of(m) ==
    LET start == find(m, "+") + 6
    IN  slice(m, start, start + 7)
get_start_time_str(self, t) ==
    LET r == get_SAME_message(self, t, 0, NoCall)
    IN  Returned(r, start_time_str_of(r.value[1]))

\* get_duration_sec 872-874
duration_sec_of(m) ==
    LET d_str == duration_str_of(m)
    IN  int(slice(d_str, 0, 2)) * 60 * 60 + int(slice(d_str, 2, 4)) * 60
get_duration_sec(self, t) ==
    LET r == get_SAME_message(self, t, 0, NoCall)
    IN  Returned(r, duration_sec_of(r.value[1]))

\* get_start_time_sec 877: the instant whose year and day decide the year
reference_time(self, t) == self.start_time

\* the slip of comparing the days with <= and >=
Mut_issue_year(current, issue_jday) ==
    IF current.tm_yday <= 10 /\ issue_jday >= 355 THEN current.tm_year - 1
    ELSE IF current.tm_yday >= 355 /\ issue_jday <= 10 THEN current.tm_year + 1
    ELSE current.tm_year

\* get_start_time_sec 878-883
issue_year(current, issue_jday) ==
    IF current.tm_yday < 10 /\ issue_jday > 355 THEN current.tm_year - 1
    ELSE IF current.tm_yday > 355 /\ issue_jday < 10 THEN current.tm_year + 1
    ELSE current.tm_year

\* get_start_time_sec 876-884
get_start_time_sec(self, t) ==
    LET current == gmtime(reference_time(self, t))
        str == get_start_time_str(self, t)
    IN  IF str.raised # "none" THEN str
        ELSE [raised |-> "none",
              value |-> timegm(issue_year(current, int(slice(str.value, 0, 3))),
                               str.value)]

\* the slip of leaving a 5-character code as it is
Mut_normalize_fips(fips) == fips

\* applies_to_fips 895-896
normalize_fips(fips) == IF Len(fips) = 5 THEN <<"0">> \o fips ELSE fips

\* the slip of scanning up to the issue time
Mut_scan_positions(msg) == { i \in 15..(Len(msg) - 13 - 1) : (i - 15) % 7 = 0 }

\* applies_to_fips 902: range(15, len(msg) - 20, 7)
scan_positions(msg) == { i \in 15..(Len(msg) - 20 - 1) : (i - 15) % 7 = 0 }

\* applies_to_fips 903-908 for the slot that ends before the 0-based index i
slot_matches(msg, i, fips) ==
    /\ \A x \in 1..5 : msg[i - x + 1] = fips[Len(fips) - x + 1]
    /\ (fips[1] = "0" \/ msg[i - 6 + 1] = "0" \/ fips[1] = msg[i - 6 + 1])

\* SAMEMessage.applies_to_fips 889-912 on the averaged string
SAMEMessage_applies_to_fips(self, fips, t) ==
    LET fips6 == normalize_fips(fips)
    IN  IF Len(fips6) # 6
        THEN [raised |-> "ValueError", value |-> None]
        ELSE LET r == get_SAME_message(self, t, 0, NoCall)
             IN  IF r.raised # "none"
                 THEN [raised |-> r.raised, value |-> None]
                 ELSE [raised |-> "none",
                       value |-> \E i \in scan_positions(r.value[1]) :
                                     slot_matches(r.value[1], i, fips6)]

\* __init__ 776-792, 802-805 for a header literal at clock reading t, without
\* a received_callback
SAMEMessage(literal, t) ==
    LET made == [headers |-> <<>>, timeout |-> 0, received_callback |-> FALSE,
                 avg_message |-> <<literal, [i \in 1..Len(literal) |-> "9"]>>,
                 cb_calls |-> 0, made_so |-> FALSE, start_time |-> t,
                 event_id |-> None]
        start == get_start_time_sec(made, t)
    IN  [made EXCEPT !.start_time = start.value, !.timeout = NegInf,
                     !.event_id = made.avg_message[1]]

\* the FIPS codes the headers carry
FipsSlots ==
    { <<"0", "3", "7", "1", "8", "3">>, <<"1", "3", "7", "1", "8", "3">>,
      <<"0", "3", "7", "0", "6", "3">>, <<"0", "3", "9", "1", "7", "3">> }

\* originator, event type, duration and issue time of the headers
HeaderFields ==
    { [org |-> <<"W", "X", "R">>, evt |-> <<"T", "O", "R">>,
       dur |-> <<"0", "0", "3", "0">>, start |-> <<"1", "5", "9", "1", "8", "2", "9">>],
      [org |-> <<"E", "A", "S">>, evt |-> <<"S", "V", "R">>,
       dur |-> <<"0", "1", "4", "5">>, start |-> <<"0", "0", "9", "2", "3", "5", "9">>],
      [org |-> <<"C", "I", "V">>, evt |-> <<"T", "O", "A">>,
       dur |-> <<"0", "6", "0", "0">>, start |-> <<"0", "1", "0", "0", "0", "0", "0">>],
      [org |-> <<"P", "E", "P">>, evt |-> <<"S", "V", "A">>,
       dur |-> <<"0", "0", "1", "5">>, start |-> <<"3", "5", "5", "0", "0", "0", "0">>],
      [org |-> <<"W", "X", "R">>, evt |-> <<"T", "O", "R">>,
       dur |-> <<"0", "1", "0", "0">>, start |-> <<"3", "5", "6", "1", "2", "0", "0">>] }

CallSign == <<"K", "C", "L", "E", "/", "N", "W", "S">>

RECURSIVE JoinSlots(_)
JoinSlots(slots) ==
    IF slots = <<>> THEN <<>>
    ELSE <<"-">> \o Head(slots) \o JoinSlots(Tail(slots))

\* the canonical header -ORG-EVT-F1-...-Fn+DDDD-JJJHHMM-CCCC/NWS-
CanonicalHeader(f, slots) ==
    <<"-">> \o f.org \o <<"-">> \o f.evt \o JoinSlots(slots) \o <<"+">> \o f.dur
    \o <<"-">> \o f.start \o <<"-">> \o CallSign \o <<"-">>

\* the fields and slots of Literal
LiteralInput ==
    [fields |-> [org |-> <<"W", "X", "R">>, evt |-> <<"T", "O", "R">>,
                 dur |-> <<"0", "0", "3", "0">>,
                 start |-> <<"1", "5", "9", "1", "8", "2", "9">>],
     slots |-> << <<"0", "3", "9", "1", "7", "3">>, <<"0", "3", "9", "0", "5", "1">>,
                  <<"1", "3", "9", "0", "6", "9">> >>]

LiteralInputs ==
    {LiteralInput} \cup
    { [fields |-> f, slots |-> sl] :
        f \in HeaderFields, sl \in UNION { [1..n -> FipsSlots] : n \in 1..MaxSlots } }

\* the codes applies_to_fips is asked about: of 5 and of 6 characters, and two
\* that equal the 6 bytes and the 6 after them that follow the + of a header
FipsQueries ==
    { <<"3", "7", "1", "8", "3">>, <<"3", "7", "0", "6", "3">>,
      <<"9", "9", "9", "9", "9">>,
      <<"0", "3", "7", "1", "8", "3">>, <<"1", "3", "7", "1", "8", "3">>,
      <<"2", "3", "7", "1", "8", "3">>, <<"0", "3", "7", "0", "6", "3">>,
      <<"0", "0", "3", "0", "-", "1">>, <<"9", "1", "8", "2", "9", "-">> }

\* noon of day yday of the year
Instant(year, yday) ==
    ((year - EpochYear) * DaysPerYear + yday - 1) * SecsPerDay + 12 * SecsPerHour

\* when the message is made
ConstructionInstants == { Instant(1971, d) : d \in {1, 9, 10, 200, 355, 356, 365} }
\* when it is used
Instants == ConstructionInstants \cup { Instant(1972, 1), Instant(1972, 5) }

InitLiteral ==
    /\ now \in ConstructionInstants
    /\ \E in \in LiteralInputs :
         args = [self |-> SAMEMessage(CanonicalHeader(in.fields, in.slots), now),
                 literal |-> CanonicalHeader(in.fields, in.slots),
                 fields |-> in.fields, slots |-> in.slots, at |-> now]
    /\ result = [op |-> "none"]
    /\ InitNoMsg /\ InitCache /\ InitNoThreads

\* time passes
LiteralTick ==
    /\ \E t \in Instants : t > now /\ now' = t
    /\ result' = [op |-> "tick"]
    /\ UNCHANGED <<args, msgVars, cacheVars, threadVars>>

\* applies_to_fips(fips)
AppliesToFips ==
    /\ \E fips \in FipsQueries :
         LET r == SAMEMessage_applies_to_fips(args.self, fips, now)
         IN  result' = [op |-> "applies_to_fips", fips |-> fips,
                        raised |-> r.raised, value |-> r.value]
    /\ UNCHANGED <<now, args, msgVars, cacheVars, threadVars>>

\* fully_received() and every accessor of the fields
Accessors ==
    /\ result' =
         [op |-> "accessors",
          fully_received |-> fully_received(args.self, FALSE, FALSE, now, 0, NoCall).complete,
          originator |-> get_originator(args.self, now).value,
          event_type |-> get_event_type(args.self, now).value,
          counties |-> get_counties(args.self, now).value,
          duration_str |-> get_duration_str(args.self, now).value,
          duration_sec |-> get_duration_sec(args.self, now).value,
          start_time_str |-> get_start_time_str(args.self, now).value]
    /\ UNCHANGED <<now, args, msgVars, cacheVars, threadVars>>

\* get_start_time_sec()
GetStartTimeSec ==
    /\ result' = [op |-> "get_start_time_sec",
                  value |-> get_start_time_sec(args.self, now).value]
    /\ UNCHANGED <<now, args, msgVars, cacheVars, threadVars>>

NextLiteral == LiteralTick \/ AppliesToFips \/ Accessors \/ GetStartTimeSec

\* a SAMEMessage made from a header literal and read
SpecLiteral == InitLiteral /\ [][NextLiteral]_vars

-----------------------------------------------------------------------------
(* get_active_messages on a cache that holds messages: cache.py 160-181 *)

\* at most MaxSubmitted messages were added to the cache
MaxSubmitted == 3
\* the clock of these calls stops at ActiveMaxTime
ActiveMaxTime == 4

RECURSIVE add_messages(_, _)
\* MessageCache.add_message 114-121 for each message in turn
add_messages(groups, uids) ==
    IF uids = <<>> THEN groups
    ELSE add_messages(cache_add_message(groups, Head(uids)), Tail(uids))

\* the messages added, in the order they were added
Submissions ==
    UNION { { sub \in [1..n -> DOMAIN CacheMessages] :
                \A i, j \in 1..n : i # j => sub[i] # sub[j] } : n \in 0..MaxSubmitted }

InitActive ==
    /\ now = 1
    /\ \E sub \in Submissions : messages = add_messages(<<>>, sub)
    /\ old_score = 0 /\ queue = <<>> /\ handled = Idle /\ last_emitted = 0
    /\ args = None
    /\ result = [op |-> "none"]
    /\ InitNoMsg /\ InitNoThreads

ActiveTick ==
    /\ now < ActiveMaxTime
    /\ now' = now + 1
    /\ result' = [op |-> "tick"]
    /\ UNCHANGED <<args, msgVars, cacheVars, threadVars>>

\* get_active_messages(here=here) with the default pattern and sorter
GetActiveMessages ==
    /\ \E here \in BOOLEAN :
         result' = [op |-> "get_active_messages", here |-> here,
                    value |-> get_active_messages(messages, here, now)]
    /\ UNCHANGED <<now, args, msgVars, cacheVars, threadVars>>

NextActive == ActiveTick \/ GetActiveMessages

\* a cache holding messages is asked for the active ones
SpecActive == InitActive /\ [][NextActive]_vars

-----------------------------------------------------------------------------
(* ConfidentCharacter: SAME.py 112-178 *)

\* the confidence of a bit is at most MaxConfidence
MaxConfidence == 2
\* at most MaxCopies copies of a character are merged
MaxCopies == 3

\* a character has 8 bits, bit 0 the least significant
Bits == 8

\* sum(bitwise_confidence)
RECURSIVE sum(_)
sum(l) == IF l = <<>> THEN 0 ELSE Head(l) + sum(Tail(l))

\* ConfidentCharacter.__init__ 130-135 with bitwise_confidence; char is the
\* code point of the character
ConfidentCharacter(char, bitwise_confidence) ==
    [char |-> char, bitwise_confidence |-> bitwise_confidence,
     confidence |-> sum(bitwise_confidence) \div 8]

\* (ord(self.char) >> k) & 1
bit(char, k) == (char \div (2 ^ k)) % 2

\* get_bit_confidences 167-178; position k + 1 of a sequence is bit k
get_bit_confidences(self) ==
    [bits_true |-> [i \in 1..Bits |->
                      IF bit(self.char, i - 1) = 1 THEN self.bitwise_confidence[i] ELSE 0],
     bits_false |-> [i \in 1..Bits |->
                      IF bit(self.char, i - 1) = 1 THEN 0 ELSE self.bitwise_confidence[i]]]

\* new_byte of 151-155: the bits whose weight is how_true(i) > 0
RECURSIVE new_byte(_, _)
new_byte(set, i) ==
    IF i > Bits THEN 0
    ELSE (IF set[i] THEN 2 ^ (i - 1) ELSE 0) + new_byte(set, i + 1)

\* the slip of leaving out what the other character holds against a bit
Mut_add_one_sided(self, other) ==
    LET mine == get_bit_confidences(self)
        theirs == get_bit_confidences(other)
        how_true == [i \in 1..Bits |->
                        (mine.bits_true[i] + theirs.bits_true[i]) - mine.bits_false[i]]
    IN  ConfidentCharacter(
            new_byte([i \in 1..Bits |-> how_true[i] > 0], 1),
            [i \in 1..Bits |-> IF how_true[i] > 0 THEN how_true[i] ELSE -how_true[i]])

\* the slip of setting a bit whose weights are in balance
Mut_add_balanced(self, other) ==
    LET mine == get_bit_confidences(self)
        theirs == get_bit_confidences(other)
        how_true == [i \in 1..Bits |->
                        (mine.bits_true[i] + theirs.bits_true[i])
                        - (mine.bits_false[i] + theirs.bits_false[i])]
    IN  ConfidentCharacter(
            new_byte([i \in 1..Bits |-> how_true[i] >= 0], 1),
            [i \in 1..Bits |-> IF how_true[i] > 0 THEN how_true[i] ELSE -how_true[i]])

\* ConfidentCharacter.__add__ 145-160
ConfidentCharacter_add(self, other) ==
    LET mine == get_bit_confidences(self)
        theirs == get_bit_confidences(other)
        how_true == [i \in 1..Bits |->
                        (mine.bits_true[i] + theirs.bits_true[i])
                        - (mine.bits_false[i] + theirs.bits_false[i])]
    IN  ConfidentCharacter(
            new_byte([i \in 1..Bits |-> how_true[i] > 0], 1),
            [i \in 1..Bits |-> IF how_true[i] > 0 THEN how_true[i] ELSE -how_true[i]])

RECURSIVE merge_copies(_, _)
\* h + h + ... + h with n copies
merge_copies(h, n) ==
    IF n = 1 THEN h ELSE ConfidentCharacter_add(merge_copies(h, n - 1), h)

\* the characters merged: NUL, A, B and 0xFF, with one confidence for the
\* even bits and one for the odd bits
Characters ==
    { ConfidentCharacter(char, [i \in 1..Bits |-> IF i % 2 = 1 THEN odd ELSE even]) :
        char \in {0, 65, 255}, odd \in 0..MaxConfidence, even \in 0..MaxConfidence }

InitMerge ==
    /\ now = 1
    /\ \E a, b, c \in Characters : args = [a |-> a, b |-> b, c |-> c]
    /\ result = [op |-> "none"]
    /\ InitNoMsg /\ InitCache /\ InitNoThreads

\* a + b, b + a, (a + b) + c and a + (b + c)
Merge ==
    /\ result' = [op |-> "merge",
                  ab |-> ConfidentCharacter_add(args.a, args.b),
                  ba |-> ConfidentCharacter_add(args.b, args.a),
                  ab_c |-> ConfidentCharacter_add(
                               ConfidentCharacter_add(args.a, args.b), args.c),
                  a_bc |-> ConfidentCharacter_add(
                               args.a, ConfidentCharacter_add(args.b, args.c))]
    /\ UNCHANGED <<now, args, msgVars, cacheVars, threadVars>>

\* n copies of a merged
MergeCopies ==
    /\ \E n \in 2..MaxCopies :
         result' = [op |-> "copies", n |-> n, value |-> merge_copies(args.a, n)]
    /\ UNCHANGED <<now, args, msgVars, cacheVars, threadVars>>

NextMerge == Merge \/ MergeCopies

\* ConfidentCharacters are merged
SpecMerge == InitMerge /\ [][NextMerge]_vars

-----------------------------------------------------------------------------
(* add_message on an ingestion thread and _generate_events on a tick thread:
   cache.py 107-140, one step per statement *)

\* the ingestion thread adds MaxIngest messages
MaxIngest == 2
\* the tick thread handles MaxSweeps generate_events events
MaxSweeps == 2
\* the clock of the threads starts at ThreadMinTime and stops at ThreadMaxTime
ThreadMinTime == 3
ThreadMaxTime == 5

\* the messages the ingestion thread adds
IngestUids == 1..5

\* the slip of a lock that does not exclude
Mut_lock_acquire(lock, thread) == [ok |-> TRUE, lock |-> thread]

\* with self.__messages_lock (114, 130, 136): entered when the lock is free
lock_acquire(lock, thread) == [ok |-> lock = "free", lock |-> thread]

\* 116-120: the dict with a new EventMessageGroup under event_id if it has none
with_holder(groups, event_id) ==
    IF \E i \in 1..Len(groups) : groups[i].event_id = event_id
    THEN groups
    ELSE Append(groups, [event_id |-> event_id, messages |-> <<>>, areas |-> {}])

\* 121: holder.add_message(message) on the group under the message's event_id
holder_add_message(groups, uid) ==
    [i \in 1..Len(groups) |->
        IF groups[i].event_id = CacheMessages[uid].event_id
        THEN group_add_message(groups[i], uid)
        ELSE groups[i]]

\* self.messages[-1] (279) raises IndexError on a group without messages
SomeGroupEmpty(groups) == \E i \in 1..Len(groups) : groups[i].messages = <<>>

\* the messages of the groups that end before t
ExpiredUids(groups, t) ==
    UNION { { groups[i].messages[k] : k \in 1..Len(groups[i].messages) } :
              i \in { g \in 1..Len(groups) : group_end_time_sec(groups[g]) < t } }

InitThreads ==
    /\ now = ThreadMinTime
    /\ messages = <<>>
    /\ old_score = 0 /\ queue = <<>> /\ handled = Idle /\ last_emitted = 0
    /\ pc = [ingest |-> "idle", tick |-> "idle"]
    /\ messages_lock = "free"
    /\ \E todo \in { sub \in [1..MaxIngest -> IngestUids] :
                       \A i, j \in 1..MaxIngest : i # j => sub[i] # sub[j] } :
         locals = [todo |-> todo, message |-> 0, collection |-> <<>>,
                   detached |-> FALSE, holder_new |-> FALSE, submitted |-> {},
                   sweeps |-> 0, first_expiry |-> 0, kept |-> <<>>, dropped |-> {}]
    /\ args = None /\ result = None
    /\ InitNoMsg

\* the clock advances
ThreadTick ==
    /\ now < ThreadMaxTime
    /\ now' = now + 1
    /\ UNCHANGED <<messages, pc, messages_lock, locals>>

\* add_message 114: the lock is taken for the next message
AddMessageLock ==
    /\ pc.ingest = "idle" /\ locals.todo # <<>>
    /\ lock_acquire(messages_lock, "ingest").ok
    /\ messages_lock' = lock_acquire(messages_lock, "ingest").lock
    /\ locals' = [locals EXCEPT !.message = Head(locals.todo), !.todo = Tail(locals.todo)]
    /\ pc' = [pc EXCEPT !.ingest = "115"]
    /\ UNCHANGED <<now, messages>>

\* add_message 115: collection = self.__messages, a reference to the dict
AddMessageRead ==
    /\ pc.ingest = "115"
    /\ locals' = [locals EXCEPT !.detached = FALSE, !.collection = <<>>]
    /\ pc' = [pc EXCEPT !.ingest = "116"]
    /\ UNCHANGED <<now, messages, messages_lock>>

\* add_message 116-120: the holder is found in the dict collection refers to,
\* or made and put into it
AddMessageLookup ==
    /\ pc.ingest = "116"
    /\ LET event_id == CacheMessages[locals.message].event_id
           dict == IF locals.detached THEN locals.collection ELSE messages
           is_new == ~ \E i \in 1..Len(dict) : dict[i].event_id = event_id
       IN  IF locals.detached
           THEN /\ locals' = [locals EXCEPT !.collection = with_holder(dict, event_id),
                                            !.holder_new = is_new]
                /\ messages' = messages
           ELSE /\ locals' = [locals EXCEPT !.holder_new = is_new]
                /\ messages' = with_holder(dict, event_id)
    /\ pc' = [pc EXCEPT !.ingest = "121"]
    /\ UNCHANGED <<now, messages_lock>>

\* add_message 121: holder.add_message(message).  A holder taken from a dict
\* that self.__messages no longer refers to is still the group the new dict
\* holds, unless it was made for this message or dropped.
AddMessageAdd ==
    /\ pc.ingest = "121"
    /\ IF ~locals.detached
          \/ (~locals.holder_new
              /\ \E i \in 1..Len(messages) :
                    /\ messages[i].event_id = CacheMessages[locals.message].event_id
                    /\ \E j \in 1..Len(locals.collection) :
                          locals.collection[j] = messages[i])
       THEN /\ messages' = holder_add_message(messages, locals.message)
            /\ locals' = locals
       ELSE /\ messages' = messages
            /\ locals' = [locals EXCEPT
                            !.collection = holder_add_message(@, locals.message)]
    /\ pc' = [pc EXCEPT !.ingest = "unlock"]
    /\ UNCHANGED <<now, messages_lock>>

\* add_message 121-122: the lock is released and update_score is fired
AddMessageUnlock ==
    /\ pc.ingest = "unlock"
    /\ messages_lock' = "free"
    /\ locals' = [locals EXCEPT !.submitted = @ \cup {locals.message}]
    /\ pc' = [pc EXCEPT !.ingest = "idle"]
    /\ UNCHANGED <<now, messages>>

\* _get_first_expiry 136, called at 127
ExpiryLock ==
    /\ pc.tick = "idle" /\ locals.sweeps < MaxSweeps
    /\ lock_acquire(messages_lock, "tick").ok
    /\ messages_lock' = lock_acquire(messages_lock, "tick").lock
    /\ pc' = [pc EXCEPT !.tick = "137"]
    /\ UNCHANGED <<now, messages, locals>>

\* _get_first_expiry 137-140; an exception leaves the with block and ends the
\* handler
ExpiryRead ==
    /\ pc.tick = "137"
    /\ IF SomeGroupEmpty(messages)
       THEN /\ pc' = [pc EXCEPT !.tick = "raised"]
            /\ locals' = locals
       ELSE /\ pc' = [pc EXCEPT !.tick = "129"]
            /\ locals' = [locals EXCEPT !.first_expiry = get_first_expiry(messages)]
    /\ messages_lock' = "free"
    /\ UNCHANGED <<now, messages>>

\* _generate_events 129: first_expiry < self.__time()
SweepTest ==
    /\ pc.tick = "129"
    /\ IF locals.first_expiry < now
       THEN /\ pc' = [pc EXCEPT !.tick = "130"]
            /\ locals' = locals
       ELSE /\ pc' = [pc EXCEPT !.tick = "idle"]
            /\ locals' = [locals EXCEPT !.sweeps = @ + 1]
    /\ UNCHANGED <<now, messages, messages_lock>>

\* _generate_events 130
SweepLock ==
    /\ pc.tick = "130"
    /\ lock_acquire(messages_lock, "tick").ok
    /\ messages_lock' = lock_acquire(messages_lock, "tick").lock
    /\ pc' = [pc EXCEPT !.tick = "131"]
    /\ UNCHANGED <<now, messages, locals>>

\* _generate_events 131, the right-hand side: the new dict is built
SweepFilter ==
    /\ pc.tick = "131"
    /\ IF SomeGroupEmpty(messages)
       THEN /\ pc' = [pc EXCEPT !.tick = "raised"]
            /\ messages_lock' = "free"
            /\ locals' = locals
       ELSE /\ pc' = [pc EXCEPT !.tick = "assign"]
            /\ messages_lock' = messages_lock
            /\ locals' = [locals EXCEPT !.kept = Unexpired(messages, now),
                                        !.dropped = @ \cup ExpiredUids(messages, now)]
    /\ UNCHANGED <<now, messages>>

\* _generate_events 131, the assignment: self.__messages refers to the new
\* dict, and a collection taken before refers to the old one
SweepAssign ==
    /\ pc.tick = "assign"
    /\ messages' = locals.kept
    /\ locals' = IF pc.ingest \in {"116", "121"} /\ ~locals.detached
                 THEN [locals EXCEPT !.detached = TRUE, !.collection = messages]
                 ELSE locals
    /\ pc' = [pc EXCEPT !.tick = "unlock"]
    /\ UNCHANGED <<now, messages_lock>>

\* _generate_events 131-132: the lock is released and update_score(None) fired
SweepUnlock ==
    /\ pc.tick = "unlock"
    /\ messages_lock' = "free"
    /\ locals' = [locals EXCEPT !.sweeps = @ + 1]
    /\ pc' = [pc EXCEPT !.tick = "idle"]
    /\ UNCHANGED <<now, messages>>

NextThreads ==
    /\ \/ ThreadTick
       \/ AddMessageLock \/ AddMessageRead \/ AddMessageLookup \/ AddMessageAdd
       \/ AddMessageUnlock
       \/ ExpiryLock \/ ExpiryRead \/ SweepTest \/ SweepLock \/ SweepFilter
       \/ SweepAssign \/ SweepUnlock
    /\ UNCHANGED <<msgVars, old_score, queue, handled, last_emitted, args, result>>

\* the two threads interleaved in any way
SpecThreads == InitThreads /\ [][NextThreads]_vars

-----------------------------------------------------------------------------
(* An EventMessageGroup on its own: cache.py 184-283 *)

\* the clock of these calls stops at GroupMaxTime
GroupMaxTime == 5

\* EventMessageGroup.__init__ 191-193; event_id is the key a cache files the
\* group under, and a group on its own has none
EventMessageGroup == [event_id |-> "", messages |-> <<>>, areas |-> {}]

\* EventMessageGroup.get_event_id 203-207
get_event_id(group) ==
    IF Len(group.messages) > 0
    THEN CacheMessages[group.messages[1]].event_id
    ELSE ""

\* SAMEMessage.get_areas 818-819
get_areas(uid) ==
    { CacheMessages[uid].counties[i] : i \in 1..Len(CacheMessages[uid].counties) }

InitGroup ==
    /\ now = 1
    /\ messages = <<EventMessageGroup>>
    /\ old_score = 0 /\ queue = <<>> /\ handled = Idle /\ last_emitted = 0
    /\ args = None
    /\ result = [op |-> "none"]
    /\ InitNoMsg /\ InitNoThreads

GroupTick ==
    /\ now < GroupMaxTime
    /\ now' = now + 1
    /\ result' = [op |-> "tick"]
    /\ UNCHANGED <<args, msgVars, cacheVars, threadVars>>

\* EventMessageGroup.add_message(msg) 195-201; the assertion of line 197
\* fails for a message of another event
GroupAddMessage ==
    \E uid \in DOMAIN CacheMessages :
        LET group == messages[1]
            asserted == Len(group.messages) > 0
                        /\ CacheMessages[uid].event_id # get_event_id(group)
        IN  /\ messages' = IF asserted THEN messages
                           ELSE <<group_add_message(group, uid)>>
            /\ result' = [op |-> "add_message", uid |-> uid,
                          raised |-> IF asserted THEN "AssertionError" ELSE "none"]
            /\ UNCHANGED <<now, args, msgVars, old_score, queue, handled,
                           last_emitted, threadVars>>

\* EventMessageGroup.is_effective(latlon, fips, test_for_here, when) 223-273;
\* latlon is the configured point (TRUE) or None (FALSE)
IsEffective ==
    /\ \E latlon, test_for_here \in BOOLEAN, fips \in {County, Elsewhere} :
         result' = [op |-> "is_effective", latlon |-> latlon, fips |-> fips,
                    test_for_here |-> test_for_here,
                    value |-> is_effective(messages[1], latlon, fips, test_for_here, now)]
    /\ UNCHANGED <<now, args, msgVars, cacheVars, threadVars>>

NextGroup == GroupTick \/ GroupAddMessage \/ IsEffective

\* messages are added to one EventMessageGroup, which is asked what is in effect
SpecGroup == InitGroup /\ [][NextGroup]_vars

-----------------------------------------------------------------------------
(* Radio's event listeners: __init__.py 43-45, 99-103, 164-172 *)

\* at most MaxListeners listeners are registered
MaxListeners == 3

\* what a listener does with an event: it returns, or it raises an exception
\* of one of two classes derived from Exception
ListenerBodies == {"returns", "ValueError", "KeyError"}

\* the classes of the events the chip hands to pass_along_user_events
EventClasses == {"SAMEEvent", "AlertToneCheck", "TuneFrequency"}

\* the slip of calling the listeners without try/except: the first exception
\* ends the loop and reaches the caller
Mut_dispatch_event(event_listeners, i, log) ==
    LET raising == { k \in DOMAIN event_listeners : event_listeners[k] # "returns" }
        first == CHOOSE k \in raising : \A j \in raising : k <= j
    IN  IF raising = {}
        THEN [invoked |-> [k \in DOMAIN event_listeners |-> k],
              logged |-> <<>>, raised |-> "none"]
        ELSE [invoked |-> [k \in 1..first |-> k],
              logged |-> <<>>, raised |-> event_listeners[first]]

RECURSIVE dispatch_event(_, _, _)
\* Radio.__dispatch_event 167-172 from listener i on: the listeners invoked,
\* the exceptions logged and the exception that leaves the method
dispatch_event(event_listeners, i, log) ==
    IF i > Len(event_listeners)
    THEN log
    ELSE dispatch_event(event_listeners, i + 1,
             [log EXCEPT
                !.invoked = Append(@, i),
                !.logged = IF event_listeners[i] = "returns" THEN @
                           ELSE Append(@, event_listeners[i])])

\* Radio.__enter__.pass_along_user_events 99-101
pass_along_user_events(event_listeners, event) ==
    LET log == [invoked |-> <<>>, logged |-> <<>>, raised |-> "none"]
    IN  IF event \in {"SAMEEvent", "AlertToneCheck"}
        THEN dispatch_event(event_listeners, 1, log)
        ELSE log

\* Radio.__init__ 45: self.event_listeners = []
InitDispatch ==
    /\ args = [event_listeners |-> <<>>]
    /\ result = [op |-> "none"]
    /\ InitClock /\ InitNoMsg /\ InitCache /\ InitNoThreads

\* Radio.register_event_listener 164-165
RegisterEventListener ==
    /\ Len(args.event_listeners) < MaxListeners
    /\ \E l \in ListenerBodies :
         args' = [args EXCEPT !.event_listeners = Append(@, l)]
    /\ result' = [op |-> "register_event_listener"]
    /\ UNCHANGED <<now, msgVars, cacheVars, threadVars>>

\* the chip hands an event to pass_along_user_events
PassAlongUserEvents ==
    /\ \E event \in EventClasses :
         result' = [op |-> "pass_along_user_events", event |-> event,
                    log |-> pass_along_user_events(args.event_listeners, event)]
    /\ UNCHANGED <<now, args, msgVars, cacheVars, threadVars>>

NextDispatch == RegisterEventListener \/ PassAlongUserEvents

\* listeners are registered with a Radio and events are dispatched to them
SpecDispatch == InitDispatch /\ [][NextDispatch]_vars

-----------------------------------------------------------------------------
(* make_new_scores on two threads: cache.py 142-158 *)

\* each thread handles at most MaxUpdates update_score events
MaxUpdates == 2
\* the clock of these threads stops at ScoreMaxTime
ScoreMaxTime == 6

\* the threads that handle update_score on the shared cache
ScoreThreads == {"ingest", "tick"}

\* a cache holding the SVR and the TOR, both in effect for the county; the
\* new_score events fired are kept in result.emitted
InitScores ==
    /\ now = 1
    /\ messages = add_messages(<<>>, <<1, 2>>)
    /\ old_score = 0 /\ queue = <<>> /\ handled = Idle /\ last_emitted = 0
    /\ pc = [th \in ScoreThreads |-> "idle"]
    /\ messages_lock = "free"
    /\ locals = [th \in ScoreThreads |-> [score |-> 0, updates |-> 0]]
    /\ args = None
    /\ result = [op |-> "new_score", emitted |-> <<>>]
    /\ InitNoMsg

\* the clock advances
ScoreTick ==
    /\ now < ScoreMaxTime
    /\ now' = now + 1
    /\ UNCHANGED <<messages, old_score, last_emitted, pc, messages_lock, locals, result>>

\* make_new_scores 147-148: score = 0 and the lock is taken
ScoreLock(th) ==
    /\ pc[th] = "idle" /\ locals[th].updates < MaxUpdates
    /\ lock_acquire(messages_lock, th).ok
    /\ messages_lock' = lock_acquire(messages_lock, th).lock
    /\ locals' = [locals EXCEPT ![th].score = 0]
    /\ pc' = [pc EXCEPT ![th] = "151"]
    /\ UNCHANGED <<now, messages, old_score, last_emitted, result>>

\* make_new_scores 151-154: the top score, computed while the lock is held
ScoreCompute(th) ==
    /\ pc[th] = "151"
    /\ locals' = [locals EXCEPT ![th].score = top_score(messages, now)]
    /\ pc' = [pc EXCEPT ![th] = "155"]
    /\ UNCHANGED <<now, messages, old_score, last_emitted, messages_lock, result>>

\* the end of the with block of 148-154: the lock is released
ScoreUnlock(th) ==
    /\ pc[th] = "155"
    /\ messages_lock' = "free"
    /\ pc' = [pc EXCEPT ![th] = "156"]
    /\ UNCHANGED <<now, messages, old_score, last_emitted, locals, result>>

\* make_new_scores 156: if score != self.__old_score
ScoreTest(th) ==
    /\ pc[th] = "156"
    /\ IF locals[th].score # old_score
       THEN /\ pc' = [pc EXCEPT ![th] = "157"]
            /\ UNCHANGED locals
       ELSE /\ pc' = [pc EXCEPT ![th] = "idle"]
            /\ locals' = [locals EXCEPT ![th].updates = @ + 1]
    /\ UNCHANGED <<now, messages, old_score, last_emitted, messages_lock, result>>

\* make_new_scores 157: self.fireEvent(new_score(score, update_message))
ScoreFire(th) ==
    /\ pc[th] = "157"
    /\ last_emitted' = locals[th].score
    /\ result' = [result EXCEPT !.emitted = Append(@, locals[th].score)]
    /\ pc' = [pc EXCEPT ![th] = "158"]
    /\ UNCHANGED <<now, messages, old_score, messages_lock, locals>>

\* make_new_scores 158: self.__old_score = score
ScoreStore(th) ==
    /\ pc[th] = "158"
    /\ old_score' = remember_score(old_score, locals[th].score)
    /\ locals' = [locals EXCEPT ![th].updates = @ + 1]
    /\ pc' = [pc EXCEPT ![th] = "idle"]
    /\ UNCHANGED <<now, messages, last_emitted, messages_lock, result>>

NextScores ==
    /\ \/ ScoreTick
       \/ \E th \in ScoreThreads : ScoreLock(th)
       \/ \E th \in ScoreThreads : ScoreCompute(th)
       \/ \E th \in ScoreThreads : ScoreUnlock(th)
       \/ \E th \in ScoreThreads : ScoreTest(th)
       \/ \E th \in ScoreThreads : ScoreFire(th)
       \/ \E th \in ScoreThreads : ScoreStore(th)
    /\ UNCHANGED <<msgVars, queue, handled, args>>

\* update_score is handled on both threads, interleaved in any way
SpecScores == InitScores /\ [][NextScores]_vars

-----------------------------------------------------------------------------
(* Reconciling a word with a vocabulary: SAME.py 226-297 *)

\* Strings are sequences of code points; index i of the source is position
\* i + 1 of the sequence.

\* the words examined have at most MaxWord characters
MaxWord == 4

\* wildcard=None of _word_distance: no character
NoWildcard == -1

\* _word_distance 226-237 for a confidence at least as long as the part of
\* word that is compared
_word_distance(word, confidence, choice, wildcard) ==
    LET compared == IF Len(word) < Len(choice) THEN Len(word) ELSE Len(choice)
        d == sum([i \in 1..compared |->
                    IF choice[i] # wildcard /\ word[i] # choice[i]
                    THEN 1 + confidence[i] ELSE 0])
    IN  IF Len(word) < Len(choice)
        \* 236 at i = len(word): d + (len(word) - i + 1) * 9
        THEN d + 9
        ELSE d

RECURSIVE insort(_, _)
insort(s, x) ==
    IF s = <<>> THEN <<x>>
    ELSE IF Head(s) <= x THEN <<Head(s)>> \o insort(Tail(s), x)
         ELSE <<x>> \o s

RECURSIVE sorted(_)
\* Python's sorted(lst) on numbers
sorted(lst) == IF lst = <<>> THEN <<>> ELSE insort(sorted(Tail(lst)), Head(lst))

\* __median 240-245, times two: the median of an even number of values can
\* end in .5
__median(lst) ==
    LET quotient == Len(lst) \div 2
        s == sorted(lst)
    IN  IF Len(lst) % 2 = 1 THEN 2 * s[quotient + 1]
        ELSE IF Len(lst) = 0 THEN 0
        ELSE s[quotient] + s[quotient + 1]

max(a, b) == IF a > b THEN a ELSE b
min(a, b) == IF a < b THEN a ELSE b

RECURSIVE max_of(_)
\* Python's max(list) on a list that is not empty
max_of(l) == IF Len(l) = 1 THEN l[1] ELSE max(Head(l), max_of(Tail(l)))

\* 269-272: choices as (weight, choice) pairs, the weight in tenths; a plain
\* choice has weight 1
weighted(choices) == list([k \in DOMAIN choices |-> [weight |-> 10, c |-> choices[k]]])

\* _reconcile_word 248-297; choices are (weight, choice) pairs.  The result
\* says whether IndexError left the function, and otherwise holds the tuple
\* returned.
_reconcile_word(word, confidences, start, choices) ==
    IF Len(choices) = 0 \/ Len(word) <= start
    THEN [raised |-> "none", word |-> word, confidences |-> confidences, matched |-> FALSE]
    ELSE
    LET end == start + Len(choices[1].c)
        \* 275-276: word and confidence are now the part looked at
        part == slice(word, start, end)
        confidence == slice(confidences, start, end)
        \* 279: (_word_distance + 1) / weight, as the fraction num / weight
        num(k) == 10 * (_word_distance(part, confidence, choices[k].c, NoWildcard) + 1)
        less(j, k) == num(j) * choices[k].weight < num(k) * choices[j].weight
        best == CHOOSE k \in DOMAIN choices : \A j \in DOMAIN choices : ~less(j, k)
        \* 281-282: below max(4, median) and strictly below every other candidate
        accepted == /\ 2 * num(best) < max(8, __median(confidences)) * choices[best].weight
                    /\ \A j \in DOMAIN choices \ {best} : less(best, j)
        candidate == choices[best].c
        \* 285: int() of a value that is negative is at most 0
        top == max(4, max_of(slice(confidences, start, end)))
        den == choices[best].weight * (end - start)
        base_confidence == IF top * den >= num(best)
                           THEN (top * den - num(best)) \div den ELSE 0
        \* 286-291: word is the candidate now, so word[i] is read from it
        fails == { i \in start..(end - 1) : i >= Len(candidate) \/ i >= Len(confidences) }
        stop == IF fails = {} THEN end
                ELSE CHOOSE i \in fails : \A j \in fails : i <= j
        updated == list([i \in 1..Len(confidences) |->
                      IF i - 1 >= start /\ i - 1 < stop
                      THEN IF candidate[i] # candidate[i - start]
                           THEN base_confidence
                           ELSE min(9, base_confidence \div 8)
                      ELSE confidences[i]])
        \* 293-295: l = list(word); l[start:end] = list(word)
        replaced == slice(candidate, 0, start) \o candidate \o slice(candidate, end, Len(candidate))
    IN  IF ~accepted
        THEN [raised |-> "none", word |-> part, confidences |-> confidences,
              matched |-> FALSE]
        ELSE IF fails # {}
        THEN [raised |-> "IndexError", word |-> word, confidences |-> updated,
              matched |-> FALSE]
        ELSE [raised |-> "none", word |-> replaced, confidences |-> updated,
              matched |-> TRUE]

\* the characters of the words and choices: - W X
WordChars == {45, 87, 88}

\* the lists of choices: none, one word, two words, two weighted digits as in
\* check_fips 595, one word of three characters
ChoiceLists ==
    { <<>>,
      weighted(<< <<87, 88>> >>),
      weighted(<< <<87, 88>>, <<88, 87>> >>),
      << [weight |-> 11, c |-> <<87>>], [weight |-> 10, c |-> <<88>>] >>,
      weighted(<< <<87, 88, 87>> >>) }

\* the confidences of the words: one value for every character, or falling
ConfidenceLists(n) ==
    { [i \in 1..n |-> 0], [i \in 1..n |-> 3], [i \in 1..n |-> 9],
      [i \in 1..n |-> 10 - 2 * i] }

InitReconcile ==
    /\ \E n \in 2..MaxWord : \E word \in [1..n -> WordChars] :
       \E confidences \in ConfidenceLists(n) :
       \E start \in 0..2 : \E choices \in ChoiceLists :
         args = [word |-> word, confidences |-> confidences, start |-> start,
                 choices |-> choices]
    /\ result = [op |-> "none"]
    /\ InitClock /\ InitNoMsg /\ InitCache /\ InitNoThreads

\* _reconcile_word(word, confidences, start, choices)
ReconcileWord ==
    /\ result.op = "none"
    /\ LET r == _reconcile_word(args.word, args.confidences, args.start, args.choices)
       IN  result' = [op |-> "_reconcile_word", raised |-> r.raised, word |-> r.word,
                      confidences |-> r.confidences, matched |-> r.matched]
    /\ UNCHANGED <<now, args, msgVars, cacheVars, threadVars>>

NextReconcile == ReconcileWord

\* _reconcile_word is applied to a word
SpecReconcile == InitReconcile /\ [][NextReconcile]_vars

-----------------------------------------------------------------------------
(* The length of a merged message: SAME.py 300-347 *)

\* at most MaxGarbage bytes of noise follow a header
MaxGarbage == 2

Alphabet ==
    <<"A", "B", "C", "D", "E", "F", "G", "H", "I", "J", "K", "L", "M",
      "N", "O", "P", "Q", "R", "S", "T", "U", "V", "W", "X", "Y", "Z">>

\* Python's ord(c) for the characters of a canonical header and "_"
ord(c) ==
    CASE c = "-" -> 45
      [] c = "+" -> 43
      [] c = "/" -> 47
      [] c = "_" -> 95
      [] IsDigit(c) -> 48 + DigitValue(c)
      [] OTHER -> 64 + CHOOSE i \in 1..26 : Alphabet[i] = c

\* the code points of a string
codes(str) == list([i \in 1..Len(str) |-> ord(str[i])])

\* _END_SEQUENCE 300
_END_SEQUENCE ==
    codes(<<"+", "0", "_", "_", "_", "-", "_", "_", "_", "_", "_", "_", "_", "-",
            "_", "_", "_", "_", "/", "N", "W", "S", "-">>)

RECURSIVE repeat(_, _)
\* Python's str * n
repeat(str, n) == IF n <= 0 THEN <<>> ELSE str \o repeat(str, n - 1)

\* 335: frame = '-___-___' + ('-______' * fips_count) + _END_SEQUENCE
frame_of(fips_count) ==
    codes(<<"-", "_", "_", "_", "-", "_", "_", "_">>)
    \o repeat(codes(<<"-", "_", "_", "_", "_", "_", "_">>), fips_count)
    \o _END_SEQUENCE

\* Python's int(x) for the fraction x = num / den with den > 0: towards zero
int_div(num, den) == IF num >= 0 THEN num \div den ELSE -((-num) \div den)

\* the slip of taking the longest of the lengths that are equally near
Mut_truncate(avgmsg, confidences) ==
    IF Len(avgmsg) < 38
    THEN [raised |-> "none", message |-> avgmsg, confidences |-> confidences]
    ELSE
    LET lengths == { l \in 38..Len(avgmsg) : (l - 38) % 7 = 0 }
        distance(l) == _word_distance(slice(avgmsg, l - 23, l), confidences,
                                      _END_SEQUENCE, ord("_"))
        l == CHOOSE l \in lengths : \A o \in lengths :
                 \/ distance(l) < distance(o)
                 \/ distance(l) = distance(o) /\ l >= o
        message == slice(avgmsg, 0, l)
        cut == slice(confidences, 0, l)
        confidence_chars == Cardinality({ i \in 1..Len(_END_SEQUENCE) :
                                            _END_SEQUENCE[i] # ord("_") })
        end_confidence == int_div(confidence_chars * __median(cut) - 2 * distance(l),
                                  2 * confidence_chars)
        fips_count == int_div(Len(message) - Len(_END_SEQUENCE) - 8, 7)
        frame == frame_of(fips_count)
    IN  IF Len(frame) # Len(message)
        THEN [raised |-> "AssertionError", message |-> message, confidences |-> cut]
        ELSE [raised |-> "none",
              message |-> [i \in 1..Len(message) |->
                             IF frame[i] # ord("_") THEN frame[i] ELSE message[i]],
              confidences |-> [i \in 1..Len(message) |->
                             IF frame[i] = ord("_") THEN cut[i]
                             ELSE IF message[i] # frame[i] THEN end_confidence
                             ELSE max(end_confidence, cut[i])]]

\* _truncate 303-347 for confidences that are integers, as many as the message
\* has bytes.  The result says whether the assertion of 336 failed, and
\* otherwise holds the tuple returned.
_truncate(avgmsg, confidences) ==
    IF Len(avgmsg) < 38
    THEN [raised |-> "none", message |-> avgmsg, confidences |-> confidences]
    ELSE
    LET \* 316: range(38, len(avgmsg) + 1, 7)
        lengths == { l \in 38..Len(avgmsg) : (l - 38) % 7 = 0 }
        \* 317: the confidences handed over are those of the first bytes
        distance(l) == _word_distance(slice(avgmsg, l - 23, l), confidences,
                                      _END_SEQUENCE, ord("_"))
        \* 319: min() of the pairs (distance, l)
        l == CHOOSE l \in lengths : \A o \in lengths :
                 \/ distance(l) < distance(o)
                 \/ distance(l) = distance(o) /\ l <= o
        message == slice(avgmsg, 0, l)
        cut == slice(confidences, 0, l)
        confidence_chars == Cardinality({ i \in 1..Len(_END_SEQUENCE) :
                                            _END_SEQUENCE[i] # ord("_") })
        \* 331, with the median doubled
        end_confidence == int_div(confidence_chars * __median(cut) - 2 * distance(l),
                                  2 * confidence_chars)
        fips_count == int_div(Len(message) - Len(_END_SEQUENCE) - 8, 7)
        frame == frame_of(fips_count)
    IN  IF Len(frame) # Len(message)
        THEN [raised |-> "AssertionError", message |-> message, confidences |-> cut]
        ELSE [raised |-> "none",
              message |-> [i \in 1..Len(message) |->
                             IF frame[i] # ord("_") THEN frame[i] ELSE message[i]],
              confidences |-> [i \in 1..Len(message) |->
                             IF frame[i] = ord("_") THEN cut[i]
                             ELSE IF message[i] # frame[i] THEN end_confidence
                             ELSE max(end_confidence, cut[i])]]

\* the headers: one and two FIPS codes, one whose second FIPS code looks like
\* the end of a header, 45 bytes of noise, and a header cut short
TruncateHeaders ==
    { codes(CanonicalHeader(LiteralInput.fields, SubSeq(LiteralInput.slots, 1, 1))),
      codes(CanonicalHeader(LiteralInput.fields, SubSeq(LiteralInput.slots, 1, 2))),
      codes(<<"-", "W", "X", "R", "-", "T", "O", "R", "-", "0", "3", "9", "1", "7", "3",
              "+", "0", "0", "3", "0", "-", "1", "5", "9", "1", "8", "2", "9", "-",
              "K", "C", "L", "E", "/", "N", "W", "S", "-",
              "0", "0", "3", "/", "N", "W", "S">>),
      [i \in 1..45 |-> 120],
      [i \in 1..37 |-> codes(CanonicalHeader(LiteralInput.fields,
                                             SubSeq(LiteralInput.slots, 1, 1)))[i]] }

\* the places where a byte was lost, counted from the end of the header; 0
\* for none
LostBytes == {0, 1, 2, 5, 23, 30}

\* the header with the byte at place lost from its end replaced by NUL
lose(header, lost) ==
    [i \in 1..Len(header) |-> IF lost # 0 /\ i = Len(header) + 1 - lost THEN 0 ELSE header[i]]

\* the confidences of n bytes: one value for all, or a run of values
TruncateConfidences(n) ==
    { [i \in 1..n |-> 0], [i \in 1..n |-> 5], [i \in 1..n |-> 9],
      [i \in 1..n |-> i % 10], [i \in 1..n |-> (n - i) % 10] }

InitTruncate ==
    /\ \E header \in TruncateHeaders : \E lost \in LostBytes :
       \E garbage \in 0..MaxGarbage :
         LET message == lose(header, lost) \o [i \in 1..garbage |-> 120]
         IN  \E confidences \in TruncateConfidences(Len(message)) :
               args = [message |-> message, confidences |-> confidences]
    /\ result = [op |-> "none"]
    /\ InitClock /\ InitNoMsg /\ InitCache /\ InitNoThreads

\* _truncate(avgmsg, confidences)
Truncate ==
    /\ result.op = "none"
    /\ LET r == _truncate(args.message, args.confidences)
       IN  result' = [op |-> "_truncate", raised |-> r.raised, message |-> r.message,
                      confidences |-> r.confidences]
    /\ UNCHANGED <<now, args, msgVars, cacheVars, threadVars>>

NextTruncate == Truncate

\* _truncate is applied to a merged message
SpecTruncate == InitTruncate /\ [][NextTruncate]_vars

-----------------------------------------------------------------------------
(* Averaging the headers: SAME.py 33-106, 181-223, 357-747 *)

\* a call of average_message is handed at most MaxHeaders headers
MaxHeaders == 3

\* _ORIGINATOR_CODES 33-39
_ORIGINATOR_CODES ==
    << codes(<<"E", "A", "S">>), codes(<<"C", "I", "V">>), codes(<<"W", "X", "R">>),
       codes(<<"P", "E", "P">>) >>

\* _EVENT_CODES 41-100
_EVENT_CODES ==
    <<
       codes(<<"B", "Z", "W">>), codes(<<"C", "F", "A">>), codes(<<"C", "F", "W">>),
       codes(<<"D", "S", "W">>), codes(<<"F", "F", "A">>), codes(<<"F", "F", "W">>),
       codes(<<"F", "F", "S">>), codes(<<"F", "L", "A">>), codes(<<"F", "L", "W">>),
       codes(<<"F", "L", "S">>), codes(<<"H", "W", "A">>), codes(<<"H", "W", "W">>),
       codes(<<"H", "U", "A">>), codes(<<"H", "U", "W">>), codes(<<"H", "L", "S">>),
       codes(<<"S", "V", "A">>), codes(<<"S", "V", "R">>), codes(<<"S", "V", "S">>),
       codes(<<"S", "M", "W">>), codes(<<"S", "P", "S">>), codes(<<"T", "O", "A">>),
       codes(<<"T", "O", "R">>), codes(<<"T", "R", "A">>), codes(<<"T", "R", "W">>),
       codes(<<"T", "S", "A">>), codes(<<"T", "S", "W">>), codes(<<"W", "S", "A">>),
       codes(<<"W", "S", "W">>), codes(<<"E", "A", "N">>), codes(<<"E", "A", "T">>),
       codes(<<"N", "I", "C">>), codes(<<"N", "P", "T">>), codes(<<"R", "M", "T">>),
       codes(<<"R", "W", "T">>), codes(<<"A", "D", "R">>), codes(<<"A", "V", "A">>),
       codes(<<"A", "V", "W">>), codes(<<"C", "A", "E">>), codes(<<"C", "D", "W">>),
       codes(<<"C", "E", "M">>), codes(<<"E", "Q", "W">>), codes(<<"E", "V", "I">>),
       codes(<<"F", "R", "W">>), codes(<<"H", "M", "W">>), codes(<<"L", "E", "W">>),
       codes(<<"L", "A", "E">>), codes(<<"T", "O", "E">>), codes(<<"N", "U", "W">>),
       codes(<<"R", "H", "W">>), codes(<<"S", "P", "W">>), codes(<<"V", "O", "W">>),
       codes(<<"N", "M", "N">>), codes(<<"D", "M", "O">>), codes(<<"T", "X", "F">>),
       codes(<<"T", "X", "O">>), codes(<<"T", "X", "B">>), codes(<<"T", "X", "P">>) >>

\* VALID_DURATIONS 102-104, the weights in tenths
VALID_DURATIONS ==
    <<
       [weight |-> 10, c |-> codes(<<"0", "0", "1", "5">>)],
       [weight |-> 10, c |-> codes(<<"0", "0", "3", "0">>)],
       [weight |-> 11, c |-> codes(<<"0", "0", "4", "5">>)],
       [weight |-> 11, c |-> codes(<<"0", "1", "0", "0">>)],
       [weight |-> 10, c |-> codes(<<"0", "1", "3", "0">>)],
       [weight |-> 11, c |-> codes(<<"0", "2", "0", "0">>)],
       [weight |-> 10, c |-> codes(<<"0", "2", "3", "0">>)],
       [weight |-> 11, c |-> codes(<<"0", "3", "0", "0">>)],
       [weight |-> 9, c |-> codes(<<"0", "3", "3", "0">>)],
       [weight |-> 11, c |-> codes(<<"0", "4", "0", "0">>)],
       [weight |-> 9, c |-> codes(<<"0", "4", "3", "0">>)],
       [weight |-> 11, c |-> codes(<<"0", "5", "0", "0">>)],
       [weight |-> 9, c |-> codes(<<"0", "5", "3", "0">>)],
       [weight |-> 11, c |-> codes(<<"0", "6", "0", "0">>)] >>

\* _DURATION_NUMBERS 106
_DURATION_NUMBERS == list([k \in DOMAIN VALID_DURATIONS |-> VALID_DURATIONS[k].c])

\* __ALPHA, __NUMERIC and __PRINTABLE 214-216
__ALPHA == codes(Alphabet)
__NUMERIC == codes(DigitChar)
__PRINTABLE ==
    <<16, 19>> \o SelectSeq(list([i \in 1..94 |-> i + 32]), LAMBDA x : x # 43 /\ x # 45)

\* an entry of _SAME_CHARS: the characters a byte can be, or the number that
\* says where the pattern can repeat
chars_of(pattern) == [multipath |-> 0, chars |-> pattern]

\* _SAME_CHARS 217-223
_SAME_CHARS ==
    << chars_of(codes(<<"-">>)), chars_of(codes(<<"E", "C", "W", "P">>)),
       chars_of(codes(<<"A", "I", "X", "E">>)), chars_of(codes(<<"S", "V", "R", "P">>)),
       chars_of(codes(<<"-">>)), chars_of(__ALPHA), chars_of(__ALPHA), chars_of(__ALPHA),
       chars_of(codes(<<"-">>)),
       chars_of(__PRINTABLE), chars_of(__PRINTABLE), chars_of(__PRINTABLE),
       chars_of(__PRINTABLE), chars_of(__PRINTABLE), chars_of(__PRINTABLE),
       [multipath |-> -7, chars |-> <<>>],
       chars_of(codes(<<"+">>)), chars_of(__NUMERIC), chars_of(__NUMERIC),
       chars_of(codes(<<"0", "1", "3", "4">>)), chars_of(codes(<<"0", "5">>)),
       chars_of(codes(<<"-">>)),
       chars_of(codes(<<"0", "1", "2", "3">>)), chars_of(__NUMERIC), chars_of(__NUMERIC),
       chars_of(codes(<<"0", "1", "2">>)), chars_of(__NUMERIC),
       chars_of(codes(<<"0", "1", "2", "3", "4", "5">>)), chars_of(__NUMERIC),
       chars_of(codes(<<"-">>)),
       chars_of(__ALPHA), chars_of(__ALPHA), chars_of(__ALPHA), chars_of(__ALPHA),
       chars_of(codes(<<"/">>)), chars_of(codes(<<"N">>)), chars_of(codes(<<"W">>)),
       chars_of(codes(<<"S">>)), chars_of(codes(<<"-">>)) >>

\* get_counties(transmitter) and get_wfo(transmitter) of nwr_data raise
\* KeyError for a transmitter without reference data, and the candidates are
\* empty then (457-466, 672-680)
candidate_fips_of(transmitter) == <<>>
wfo_of(transmitter) == <<>>

abs(x) == IF x < 0 THEN -x ELSE x

\* c in str
contains(str, c) == \E i \in 1..Len(str) : str[i] = c

\* check_if_valid_code 181-184 on the codes of the headers: the code, <<>> for
\* None, or IndexError from codes[1] or codes[2]
check_if_valid_code(the_codes, valid_list) ==
    IF ~\A i \in 1..Len(the_codes) : \E k \in 1..Len(valid_list) : valid_list[k] = the_codes[i]
    THEN [raised |-> "none", code |-> <<>>]
    ELSE IF Len(the_codes) < 2
    THEN [raised |-> "IndexError", code |-> <<>>]
    ELSE IF the_codes[1] # the_codes[2]
    THEN [raised |-> "none", code |-> <<>>]
    ELSE IF Len(the_codes) < 3
    THEN [raised |-> "IndexError", code |-> <<>>]
    ELSE IF the_codes[2] # the_codes[3]
    THEN [raised |-> "none", code |-> <<>>]
    ELSE [raised |-> "none", code |-> the_codes[1]]

\* _reconcile_character 187-209 for a pattern that is not empty
_reconcile_character(bitstrue, bitsfalse, pattern) ==
    IF sum(bitstrue) = 0 /\ Len(pattern) > 1
    THEN [confidence |-> 0, char |-> 0]
    ELSE
    LET distance(t) ==
            sum([j \in 1..8 |->
                   LET bit_weight == bitstrue[j] - bitsfalse[j]
                   IN  IF bit(t, j - 1) # (IF bit_weight > 0 THEN 1 ELSE 0)
                       THEN abs(bit_weight) ELSE 0])
        \* near.sort(): by distance, then by character
        first == CHOOSE k \in DOMAIN pattern : \A o \in DOMAIN pattern :
                    \/ distance(pattern[k]) < distance(pattern[o])
                    \/ /\ distance(pattern[k]) = distance(pattern[o])
                       /\ pattern[k] <= pattern[o]
        alone == \A o \in DOMAIN pattern \ {first} :
                    distance(pattern[o]) # distance(pattern[first])
    IN  [confidence |-> IF alone THEN 2 ELSE 1, char |-> pattern[first]]

\* split_message 357-423: the parts of the message, their confidences and the
\* number of FIPS codes, or the exception that leaves the function
split_message(message, confidences) ==
    LET \* 370: message[len(message) - 23]; a negative index counts from the end
        at(msg) == IF Len(msg) - 23 < 0 THEN 2 * Len(msg) - 23 ELSE Len(msg) - 23
        before(final_message, k) == sum([n \in 1..(k - 1) |-> Len(final_message[n])])
        \* 411-421
        chunked(con, final_message, fips_counter) ==
            IF before(final_message, Len(final_message) + 1) > Len(con)
            THEN [raised |-> "IndexError"]
            ELSE [raised |-> "none",
                  message |-> final_message,
                  confidences |-> list([k \in 1..Len(final_message) |->
                                          SubSeq(con, before(final_message, k) + 1,
                                                 before(final_message, k + 1))]),
                  fips_counter |-> fips_counter]
        \* 377-404
        halved(con, first_half_split, second_half_split) ==
            IF Len(first_half_split) < 3 \/ Len(second_half_split) < 3
            THEN [raised |-> "IndexError"]
            ELSE chunked(con,
                         list([k \in 1..(Len(first_half_split) - 1) |->
                                 <<45>> \o first_half_split[k + 1]])
                         \o << <<43>> \o second_half_split[1], <<45>> \o second_half_split[2],
                               <<45>> \o second_half_split[3] \o <<45>> >>,
                         Len(first_half_split) - 3)
        \* 371-376
        delimited(con, main_delimiter_split) ==
            IF Len(main_delimiter_split) = 2
            THEN halved(con, split(main_delimiter_split[1], 45),
                        split(main_delimiter_split[2], 45))
            ELSE chunked(con, <<>>, 0)
        \* 368-370
        truncated(raised, msg, con) ==
            IF raised # "none"
            THEN [raised |-> raised]
            ELSE IF at(msg) < 0 \/ at(msg) >= Len(msg)
            THEN [raised |-> "IndexError"]
            ELSE delimited(con, split(msg, msg[at(msg) + 1]))
        cut(t) == truncated(t.raised, list(t.message), list(t.confidences))
    IN  cut(_truncate(message, confidences))

\* MessageChunk.sum_confidence 522-552: chars holds the chunk of every header,
\* confidences its confidences; the weights of the bits of byte j start at
\* position 8 * j + 1
sum_confidence(chars, confidences) ==
    LET size == Len(confidences[1])
        \* 543: null characters do not count
        counts(i, j) == j <= Len(chars[i]) /\ chars[i][j] % 256 # 0
        \* 549, 551: confidence[i], the entry at the number of the header
        weights(n, b) ==
            sum([i \in 1..Len(confidences) |->
                   IF counts(i, (n - 1) \div 8 + 1)
                      /\ bit(chars[i][(n - 1) \div 8 + 1], (n - 1) % 8) = b
                   THEN confidences[i][i] ELSE 0])
    IN  IF \E i \in 1..Len(confidences) : \E j \in 1..Len(chars[i]) :
              counts(i, j) /\ (i > Len(confidences[i]) \/ j > size)
        THEN [raised |-> "IndexError"]
        ELSE [raised |-> "none",
              bitstrue |-> list([n \in 1..(8 * size) |-> weights(n, 1)]),
              bitsfalse |-> list([n \in 1..(8 * size) |-> weights(n, 0)])]

\* MessageChunk.assemble_chars 556-571
assemble_chars(bitstrue, bitsfalse) ==
    LET bit_weight(i, j) == bitstrue[8 * (i - 1) + j] - bitsfalse[8 * (i - 1) + j]
    IN  [chars |-> list([i \in 1..(Len(bitstrue) \div 8) |->
                      sum([j \in 1..8 |-> IF bit_weight(i, j) > 0 THEN 2 ^ (j - 1) ELSE 0])]),
         confidences |-> list([i \in 1..(Len(bitstrue) \div 8) |->
                      sum([j \in 1..8 |-> abs(bit_weight(i, j))])])]

\* MessageChunk.approximate_chars 607-641 over the table same_chars
approximate_over(same_chars, chars, confidences, bitstrue, bitsfalse, byte_pattern_index) ==
    LET \* list[k] of Python: a negative k counts from the end
        place(k) == IF k < 0 THEN k + Len(same_chars) ELSE k
        missing(k) == place(k) < 0 \/ place(k) >= Len(same_chars)
        entry(k) == same_chars[place(k) + 1]
        \* 622-640 once the pattern of character i is known
        approximated(s, i, multipath, next_chars, pattern, rc) ==
            LET c == IF contains(pattern, chars[i]) THEN chars[i] ELSE rc.char
                byte_confidence == IF contains(pattern, chars[i]) THEN confidences[i]
                                   ELSE rc.confidence * 8
                counter == IF multipath = 0 THEN s.counter + 1
                           ELSE IF contains(next_chars, c) THEN s.counter + 2
                           ELSE s.counter + multipath + 1
            IN  [raised |-> "none", counter |-> counter,
                 chars |-> Append(s.chars, c),
                 confidences |-> Append(s.confidences, min(9, byte_confidence \div 8))]
        patterned(s, i, multipath, next_chars, pattern) ==
            approximated(s, i, multipath, next_chars, pattern,
                         _reconcile_character(slice(bitstrue, (i - 1) * 8, i * 8),
                                              slice(bitsfalse, (i - 1) * 8, i * 8), pattern))
        \* 612-621: a is the entry multipath places on, b the next entry
        looked_up(s, i, here, a, b) ==
            IF here.multipath = 0
            THEN patterned(s, i, 0, <<>>, here.chars)
            ELSE IF a = None \/ b = None
            THEN [s EXCEPT !.raised = "IndexError"]
            ELSE IF a.multipath # 0 \/ b.multipath # 0
            THEN [s EXCEPT !.raised = "TypeError"]
            ELSE patterned(s, i, here.multipath, b.chars, a.chars \o b.chars)
        at(k) == IF missing(k) THEN None ELSE entry(k)
        step(s, i, here) ==
            IF s.raised # "none" THEN s
            ELSE IF i > Len(confidences) \/ here = None
            THEN [s EXCEPT !.raised = "IndexError"]
            ELSE looked_up(s, i, here, at(byte_pattern_index + here.multipath),
                           at(byte_pattern_index + 1))
        \* the state after i characters: the counter, what was collected, and
        \* the exception raised
        after[i \in 0..Len(chars)] ==
            IF i = 0
            THEN [raised |-> "none", counter |-> byte_pattern_index,
                  chars |-> <<>>, confidences |-> <<>>]
            ELSE step(after[i - 1], i, at(after[i - 1].counter))
        result_of(done) ==
            [raised |-> done.raised, chars |-> done.chars, confidences |-> done.confidences,
             byte_confidence_index |-> byte_pattern_index]
    IN  result_of(after[Len(chars)])

approximate_chars(chars, confidences, bitstrue, bitsfalse, byte_pattern_index) ==
    approximate_over(_SAME_CHARS, chars, confidences, bitstrue, bitsfalse, byte_pattern_index)

RECURSIVE reconcile_fips(_, _, _, _)
\* MessageChunk.__init__ 483-489: every pass reconciles what the pass before
\* it returned
reconcile_fips(reconciled, start, candidate_fips, fips_counter) ==
    IF fips_counter <= 0 \/ reconciled.raised # "none"
    THEN reconciled
    ELSE reconcile_fips(_reconcile_word(reconciled.word, reconciled.confidences, start,
                                        candidate_fips),
                        start, candidate_fips, fips_counter - 1)

\* MessageChunk.__init__ 445-519: chars, confidences and byte_confidence_index
\* of the chunk, or the exception that leaves the constructor
MessageChunk(chars, confidences, byte_confidence_index, transmitter, fips_counter, valid_times) ==
    LET idx == byte_confidence_index
        potential_byte_confidence_index_offset ==
            IF idx < 0 THEN 0 ELSE IF idx <= 6 THEN 4 ELSE IF idx <= 12 THEN 7 ELSE IF idx <= 17 THEN 4
            ELSE IF idx <= 24 THEN 8 ELSE IF idx <= 33 THEN 5 ELSE 0
        \* 511-519
        finished(bits, reconciled) ==
            IF reconciled.raised # "none"
            THEN [raised |-> reconciled.raised]
            ELSE IF reconciled.matched
            THEN [raised |-> "none", chars |-> reconciled.word,
                  confidences |-> reconciled.confidences,
                  byte_confidence_index |-> idx + potential_byte_confidence_index_offset]
            ELSE approximate_chars(reconciled.word, reconciled.confidences,
                                   bits.bitstrue, bits.bitsfalse, idx)
        \* 473-510
        reconciled_from(bits, assembled) ==
            LET unmatched == [raised |-> "none", word |-> assembled.chars,
                              confidences |-> assembled.confidences, matched |-> FALSE]
                word(choices) ==
                    _reconcile_word(assembled.chars, assembled.confidences, 1, choices)
            IN  finished(bits,
                    IF 0 <= idx /\ idx <= 3 THEN word(weighted(_ORIGINATOR_CODES))
                    ELSE IF 4 <= idx /\ idx <= 6 THEN word(weighted(_EVENT_CODES))
                    ELSE IF 7 <= idx /\ idx <= 12
                         THEN reconcile_fips(unmatched, 1,
                                             weighted(candidate_fips_of(transmitter)),
                                             fips_counter)
                    ELSE IF 13 <= idx /\ idx <= 17 THEN word(VALID_DURATIONS)
                    ELSE IF 18 <= idx /\ idx <= 24 THEN word(valid_times)
                    ELSE IF 25 <= idx /\ idx <= 29 THEN word(weighted(wfo_of(transmitter)))
                    ELSE IF 30 <= idx /\ idx <= 33
                         THEN word(weighted(<<codes(<<"N", "W", "S">>)>>))
                    ELSE unmatched)
        \* 469-472
        summed(bits) ==
            IF bits.raised # "none"
            THEN [raised |-> bits.raised]
            ELSE reconciled_from(bits, assemble_chars(bits.bitstrue, bits.bitsfalse))
    IN  summed(sum_confidence(chars, confidences))

\* time.strftime('%j%H%M', time.gmtime(t))
strftime(t) ==
    LET day == gmtime(t).tm_yday
        hour == (t % SecsPerDay) \div SecsPerHour
        minute == (t % SecsPerHour) \div SecsPerMinute
    IN  list([i \in 1..7 |-> 48 + << day \div 100, (day \div 10) % 10, day % 10,
                                     hour \div 10, hour % 10, minute \div 10, minute % 10 >>[i]])

\* average_message 669-670: the minutes before the first header arrived, the
\* weights in tenths
valid_times_of(t) ==
    << [weight |-> 5, c |-> strftime(t - 4 * SecsPerMinute)],
       [weight |-> 7, c |-> strftime(t - 3 * SecsPerMinute)],
       [weight |-> 9, c |-> strftime(t - 2 * SecsPerMinute)],
       [weight |-> 11, c |-> strftime(t - SecsPerMinute)],
       [weight |-> 10, c |-> strftime(t)] >>

\* average_message 682-747 once every header is split: splits holds what
\* split_message returned for each header
average_splits(splits, assignable, valid_times, transmitter) ==
    LET n == Len(splits)
        \* 682-684; no string equals one of the (weight, time) pairs
        valid_code_list == _DURATION_NUMBERS \o _EVENT_CODES \o _ORIGINATOR_CODES
                           \o _EVENT_CODES \o wfo_of(transmitter)
        \* 687-695: the first header that cannot be split or assigned to
        failing == { h \in 1..n : splits[h].raised # "none" \/ ~assignable }
        failed == CHOOSE h \in failing : \A o \in failing : h <= o
        \* 716-744 for part i
        averaged(s, i, valid, chunk) ==
            IF valid.raised # "none" THEN [s EXCEPT !.raised = valid.raised]
            ELSE IF valid.code # <<>>
            \* 719: headers[i][0][i]
            THEN IF i > n \/ Len(splits[i].message) < i
                 THEN [s EXCEPT !.raised = "IndexError"]
                 ELSE [raised |-> "none",
                       avgmsg |-> s.avgmsg \o splits[i].message[i],
                       confidences |-> s.confidences
                                       \o list([k \in 1..Len(valid.code) |-> 9]),
                       byte_pattern_index |-> s.byte_pattern_index + Len(valid.code)]
            ELSE IF chunk.raised # "none" THEN [s EXCEPT !.raised = chunk.raised]
            ELSE [raised |-> "none",
                  avgmsg |-> s.avgmsg \o chunk.chars,
                  confidences |-> s.confidences
                                  \o list([k \in 1..Len(chunk.confidences) |->
                                             min(9, chunk.confidences[k])]),
                  byte_pattern_index |-> chunk.byte_confidence_index]
        \* 711-715
        step(s, i) ==
            IF s.raised # "none" THEN s
            ELSE IF \E h \in 1..n : Len(splits[h].message) < i
            THEN [s EXCEPT !.raised = "IndexError"]
            ELSE averaged(s, i,
                          check_if_valid_code(
                              list([h \in 1..n |-> Tail(splits[h].message[i])]),
                              valid_code_list),
                          MessageChunk(list([h \in 1..n |-> splits[h].message[i]]),
                                       list([h \in 1..n |-> splits[h].confidences[i]]),
                                       s.byte_pattern_index, transmitter,
                                       splits[n].fips_counter, valid_times))
        \* the state after i parts of the main loop 711-744
        after[i \in 0..Len(splits[1].message)] ==
            IF i = 0
            THEN [raised |-> "none", avgmsg |-> <<>>, confidences |-> <<>>,
                  byte_pattern_index |-> 0]
            ELSE step(after[i - 1], i)
        returned(done) ==
            IF done.raised # "none"
            THEN [raised |-> done.raised, value |-> None]
            ELSE [raised |-> "none",
                  value |-> << unicodify(done.avgmsg),
                               slice(done.confidences, 0, Len(done.avgmsg)) >>]
    IN  IF failing # {}
        THEN [raised |-> IF splits[failed].raised # "none"
                         THEN splits[failed].raised ELSE "TypeError",
              value |-> None]
        ELSE returned(after[Len(splits[1].message)])

\* average_message 644-747.  A header is <<message, confidences, time>>;
\* assignable says whether the headers are lists, whose items 693-694 can
\* assign, or tuples.  The result holds the pair returned, or the exception
\* that leaves the function.
average_headers(the_headers, assignable, transmitter) ==
    IF Len(the_headers) = 0
    \* 670: headers[0][2]
    THEN [raised |-> "IndexError", value |-> None]
    ELSE average_splits(list([h \in 1..Len(the_headers) |->
                                split_message(the_headers[h][1], the_headers[h][2])]),
                        assignable, valid_times_of(the_headers[1][3]), transmitter)

\* the headers a receiver hands over: a clean one, one whose duration is none
\* of VALID_DURATIONS, one with a byte of the originator received wrongly, one
\* that has no byte of the event either, and one of 37 bytes
AverageFields == [LiteralInput.fields EXCEPT !.dur = <<"0", "0", "2", "0">>]
AverageSlots == SubSeq(LiteralInput.slots, 1, 1)
AverageHeaders ==
    LET clean == codes(CanonicalHeader(LiteralInput.fields, AverageSlots))
        unlisted == codes(CanonicalHeader(AverageFields, AverageSlots))
    IN  << clean, unlisted,
           [unlisted EXCEPT ![4] = ord("X")],
           [unlisted EXCEPT ![4] = ord("X"), ![6] = 0, ![7] = 0, ![8] = 0],
           SubSeq(clean, 1, 37) >>

\* the confidence a header has on every byte
AverageConfidences == {2, 9}

\* when the first header arrived
FirstHeaderTime == Instant(1971, 159)

InitAverage ==
    /\ \E n \in 1..MaxHeaders :
       \E picked \in [1..n -> DOMAIN AverageHeaders] :
       \E confidence \in [1..n -> AverageConfidences] :
       \E assignable \in BOOLEAN :
         args = [headers |-> [h \in 1..n |->
                                << AverageHeaders[picked[h]],
                                   [i \in 1..Len(AverageHeaders[picked[h]]) |-> confidence[h]],
                                   FirstHeaderTime + h - 1 >>],
                 assignable |-> assignable]
    /\ result = [op |-> "none"]
    /\ InitClock /\ InitNoMsg /\ InitCache /\ InitNoThreads

\* average_message(headers, transmitter)
AverageMessage ==
    /\ result.op = "none"
    /\ LET returned(r) == [op |-> "average_message", raised |-> r.raised, value |-> r.value]
       IN  result' = returned(average_headers(args.headers, args.assignable, "transmitter"))
    /\ UNCHANGED <<now, args, msgVars, cacheVars, threadVars>>

NextAverage == AverageMessage

\* average_message is applied to the headers received
SpecAverage == InitAverage /\ [][NextAverage]_vars

-----------------------------------------------------------------------------
(* Properties of the SAMEMessage state machine *)

\* C1: once a call to fully_received has returned True, every later call to
\* fully_received returns True.
C1_FullyReceivedMonotone ==
    [][(true_returns >= 1 /\ ret'.op = "fully_received") => ret'.complete]_vars

\* a message without three headers, never forced, whose timeout elapsed, on
\* which fully_received has returned True twice
C1_Witness ==
    /\ kind = "new" /\ Len(headers) < 3 /\ ~made_so
    /\ ret.op = "fully_received" /\ ret.complete /\ true_returns = 2

\* C2: received_callback is invoked at most once over the life of the message,
\* by the first call that finds the message complete, and by no later call,
\* a call to fully_received made by the callback itself included.
C2_CallbackOnce ==
    [][/\ cb_calls' <= 1
       /\ cb_calls' >= cb_calls
       /\ cb_calls' > cb_calls =>
             /\ received_callback /\ ~received_callback'
             /\ (ret'.op = "fully_received" => ret'.complete)
             /\ (ret'.op = "add_header" => ret'.raised = "ValueError")
             /\ (ret'.op = "get_SAME_message" => timeout < now \/ Len(headers) >= 3)
       /\ (received_callback /\ ret'.op = "fully_received" /\ ret'.complete) =>
             cb_calls' = cb_calls + 1
      ]_vars

\* the callback has run once and fully_received has returned True twice since
\* the message was made
C2_Witness ==
    /\ kind = "new" /\ cb_calls = 1 /\ ~received_callback
    /\ ret.op = "fully_received" /\ ret.complete /\ true_returns = 2

C4_CompleteExactly ==
    [][/\ ret'.op = "fully_received" =>
             (ret'.complete <=>
                 \/ made_so' /\ ~made_so
                 \/ timeout < now
                 \/ Len(headers) >= 3)
       /\ (made_so /\ ret'.op = "fully_received") => ret'.complete
       /\ made_so => made_so' /\ timeout' = timeout
       /\ made_so' => timeout' < now'
      ]_vars

\* a forced message without headers, before its first timeout would have
\* elapsed, on which a later fully_received returned True
C4_Witness ==
    /\ kind = "new" /\ made_so /\ Len(headers) = 0 /\ now < 1 + 6
    /\ ret.op = "fully_received" /\ ret.complete /\ true_returns = 2

\* C5: a successful add_header at time t appends one header stamped t to the
\* end of headers, the earlier ones unchanged and in arrival order, and sets
\* timeout to t + 6.
C5_AddHeaderAppends ==
    [][(ret'.op = "add_header" /\ ret'.raised = "none") =>
          /\ Len(headers') = Len(headers) + 1
          /\ SubSeq(headers', 1, Len(headers)) = headers
          /\ headers'[Len(headers')][3] = now'
          /\ \A i, j \in 1..Len(headers') : i <= j => headers'[i][3] <= headers'[j][3]
          /\ timeout' = now' + 6
          /\ ~(timeout < now \/ Len(headers) >= 3)
      ]_vars

\* a second header was appended after a different first one
C5_Witness ==
    /\ ret.op = "add_header" /\ ret.raised = "none" /\ Len(headers) = 2
    /\ headers[1][1] # headers[2][1] /\ headers[1][3] < headers[2][3]

\* C6: on a message that has received no headers get_SAME_message returns
\* ("", []) and does not fail, incomplete or complete.
C6_EmptyMessageClaim ==
    (kind = "new" /\ ret.op = "get_SAME_message" /\ Len(headers) = 0) =>
        (ret.raised = "none" /\ ret.value = EmptyMessage)

\* C7: on an incomplete message holding one or two headers get_SAME_message
\* returns an averaged view and does not fail.
C7_PartialAverageClaim ==
    (/\ kind = "new" /\ ret.op = "get_SAME_message"
     /\ Len(headers) \in {1, 2} /\ ~(timeout < now)) =>
        (ret.raised = "none" /\ ret.value # None)

\* C8: on a fully received message the average is computed at most once and
\* every get_SAME_message returns the cached value.
C8_CachedAverageClaim ==
    /\ avg_calls <= 1
    /\ (ret.op = "get_SAME_message" /\ (timeout < now \/ Len(headers) >= 3)) =>
          (ret.raised = "none" /\ avg_message # None /\ ret.value = avg_message)

-----------------------------------------------------------------------------
(* Properties of the MessageCache *)

\* the score table as the specification gives it
C9_Table(event_type) ==
    IF event_type = "SVA" \/ event_type = "SV.A" THEN 20
    ELSE IF event_type = "SVR" \/ event_type = "SV.W" THEN 30
    ELSE IF event_type = "TOA" \/ event_type = "TO.A" THEN 35
    ELSE IF event_type = "TOR" THEN 40
    ELSE IF event_type = "TO.W" THEN 45
    ELSE 0

\* the messages of a group that cover fips and are in effect at time t
C9_Matches(group, fips, t) ==
    { i \in 1..Len(group.messages) :
        LET m == CacheMessages[group.messages[i]]
        IN  applies_to_fips(m, fips) /\ m.start <= t /\ t < m.start + m.duration }

C9_Latest(group, t) ==
    CacheMessages[group.messages[
        CHOOSE i \in C9_Matches(group, County, t) :
            \A j \in C9_Matches(group, County, t) : j <= i]]

\* the group is in effect at the configured location
C9_Here(group, t) ==
    /\ C9_Matches(group, County, t) # {}
    /\ C9_Latest(group, t).polygon # "outside"

\* the group is in effect elsewhere
C9_Elsewhere(group, t) ==
    \/ /\ C9_Matches(group, County, t) # {}
       /\ C9_Latest(group, t).polygon = "outside"
    \/ /\ C9_Matches(group, County, t) = {}
       /\ \E a \in group.areas : a # County /\ C9_Matches(group, a, t) # {}

C9_GroupType(group) == CacheMessages[group.messages[Len(group.messages)]].event_type

C9_Expected ==
    LET scores ==
            {0}
            \cup { C9_Table(C9_GroupType(messages[i])) :
                     i \in { k \in 1..Len(messages) : C9_Here(messages[k], now) } }
            \cup { C9_Table(C9_GroupType(messages[i])) - 10 :
                     i \in { k \in 1..Len(messages) : C9_Elsewhere(messages[k], now) } }
    IN  CHOOSE x \in scores : \A y \in scores : y <= x

C9_Ids == { messages[i].event_id : i \in 1..Len(messages) }

\* C9: when an update_score has just been handled and no other is pending, the
\* score last emitted (0 if none) is the maximum of 0, the table scores of the
\* groups in effect here and the table scores less 10 of those in effect
\* elsewhere: 40 with SVR and TOR in effect here, 30 with SVR alone after the
\* tick past the end of TOR, 0 with nothing left.
C9_ScoreAfterUpdates ==
    (/\ handled.event = "update_score"
     /\ \A i \in 1..Len(queue) : queue[i].name # "update_score") =>
        /\ last_emitted = C9_Expected
        /\ (C9_Ids = {"SVR", "TOR"} /\ now < 3) => last_emitted = 40
        /\ (C9_Ids = {"SVR"} /\ now < 5) => last_emitted = 30
        /\ C9_Ids = {} => last_emitted = 0

\* the tick past the end of SVR has emptied the cache and the update_score it
\* fired has emitted 0
C9_Witness ==
    /\ handled = [event |-> "update_score", fired |-> TRUE]
    /\ messages = <<>> /\ last_emitted = 0 /\ now > 5 /\ queue = <<>>

\* C10: an update_score fires new_score exactly when the score it computes
\* differs from the score last emitted (0 at first), so no two new_score in a
\* row carry the same score.
C10_FiresOnChange ==
    [][handled'.event = "update_score" =>
          /\ handled'.fired <=> (top_score(messages, now) # last_emitted)
          /\ handled'.fired =>
                /\ last_emitted' = top_score(messages, now)
                /\ last_emitted' # last_emitted
          /\ ~handled'.fired => last_emitted' = last_emitted
      ]_vars

\* an update_score that found the score last emitted, 40, and fired nothing
C10_Witness ==
    /\ handled = [event |-> "update_score", fired |-> FALSE]
    /\ last_emitted = 40 /\ Len(messages) = 2

\* the groups of the cache that end before t
C11_Expired(t) == { i \in 1..Len(messages) : group_end_time_sec(messages[i]) < t }

\* C11: a generate_events tick handled at time now, with some group ending
\* before now, leaves no group that ends before now, keeps every group that
\* ends at or after now as it was and in its place, and fires
\* update_score(None); with no such group (or an empty cache) it leaves the
\* groups as they are and fires nothing.
C11_ExpirySweep ==
    [][handled'.event = "generate_events" =>
          IF C11_Expired(now) # {}
          THEN /\ \A j \in 1..Len(messages') : group_end_time_sec(messages'[j]) >= now
               /\ Len(messages') = Len(messages) - Cardinality(C11_Expired(now))
               /\ \A i \in (1..Len(messages)) \ C11_Expired(now) :
                      \E j \in 1..Len(messages') : messages'[j] = messages[i]
               /\ \A j, k \in 1..Len(messages') :
                      j < k => \E a, b \in 1..Len(messages) :
                                  a < b /\ messages[a] = messages'[j] /\ messages[b] = messages'[k]
               /\ handled'.fired
               /\ queue' = Append(Tail(queue), [name |-> "update_score", uid |-> 0])
          ELSE /\ messages' = messages
               /\ ~handled'.fired
               /\ queue' = Tail(queue)
      ]_vars

\* a tick at the very end of SVR has dropped the other groups and kept SVR
C11_Witness ==
    /\ handled = [event |-> "generate_events", fired |-> TRUE]
    /\ Len(messages) = 1 /\ messages[1].event_id = "SVR"
    /\ group_end_time_sec(messages[1]) = now

-----------------------------------------------------------------------------
(* Properties of a SAMEMessage made from a header literal *)

\* C12: for a 5-digit county code X, applies_to_fips(X) returns what
\* applies_to_fips("0" + X) returns.
C12_LeadingZero ==
    (result.op = "applies_to_fips" /\ Len(result.fips) = 5) =>
        LET six == SAMEMessage_applies_to_fips(args.self, <<"0">> \o result.fips, now)
        IN  result.raised = six.raised /\ result.value = six.value

\* a 5-digit code found in the second slot of a header, under P = 1
C12_Witness ==
    /\ result.op = "applies_to_fips" /\ Len(result.fips) = 5
    /\ result.raised = "none" /\ result.value
    /\ Len(args.slots) = 2 /\ args.slots[2][1] = "1"
    /\ SubSeq(args.slots[1], 2, 6) # result.fips

\* C13: for a canonical header of n >= 1 slots and a query of 6 characters,
\* applies_to_fips is true exactly when one of the n slots has the trailing 5
\* digits of the query and a P digit that is 0 in the message, 0 in the query
\* or the query's; no byte after the slots is compared.
C13_SlotMatch ==
    (result.op = "applies_to_fips" /\ Len(result.fips) = 6) =>
        /\ result.raised = "none"
        /\ result.value <=>
              \E k \in 1..Len(args.slots) :
                  /\ SubSeq(args.slots[k], 2, 6) = SubSeq(result.fips, 2, 6)
                  /\ \/ args.slots[k][1] = "0"
                     \/ result.fips[1] = "0"
                     \/ args.slots[k][1] = result.fips[1]

\* a query with P = 1 found in the second slot only, by its equal P digit
C13_Witness ==
    /\ result.op = "applies_to_fips" /\ result.value
    /\ result.fips = <<"1", "3", "7", "1", "8", "3">>
    /\ args.slots = << <<"0", "3", "7", "0", "6", "3">>, <<"1", "3", "7", "1", "8", "3">> >>

\* C19: a SAMEMessage made from a canonical header literal is fully received
\* at once, has the literal as its event_id, and its accessors return the
\* fields of the literal: originator, event type, the counties in order, the
\* duration string, duration_sec = HH * 3600 + MM * 60 and the issue time
\* string; for Literal these are WXR, TOR, [039173, 039051, 139069], 0030,
\* 1800 and 1591829.
C19_LiteralAccessors ==
    /\ args.self.event_id = args.literal
    /\ result.op = "accessors" =>
          /\ result.fully_received
          /\ result.originator = args.fields.org
          /\ result.event_type = args.fields.evt
          /\ result.counties = args.slots
          /\ result.duration_str = args.fields.dur
          /\ result.duration_sec =
                (DigitValue(args.fields.dur[1]) * 10 + DigitValue(args.fields.dur[2])) * 3600
                + (DigitValue(args.fields.dur[3]) * 10 + DigitValue(args.fields.dur[4])) * 60
          /\ result.start_time_str = args.fields.start
          /\ args.literal = Literal =>
                /\ result.originator = <<"W", "X", "R">>
                /\ result.event_type = <<"T", "O", "R">>
                /\ result.counties =
                      << <<"0", "3", "9", "1", "7", "3">>, <<"0", "3", "9", "0", "5", "1">>,
                         <<"1", "3", "9", "0", "6", "9">> >>
                /\ result.duration_str = <<"0", "0", "3", "0">>
                /\ result.duration_sec = 1800
                /\ result.start_time_str = <<"1", "5", "9", "1", "8", "2", "9">>

\* the accessors were read on the message made from Literal
C19_Witness ==
    /\ result.op = "accessors" /\ args.literal = Literal
    /\ args.self.avg_message[1] = Literal /\ result.duration_sec = 1800

\* the year the issue time belongs to, seen from the day the message was made
C20_Year ==
    LET current == gmtime(args.at)
        issue_jday == int(SubSeq(args.fields.start, 1, 3))
    IN  IF current.tm_yday < 10 /\ issue_jday > 355 THEN current.tm_year - 1
        ELSE IF current.tm_yday > 355 /\ issue_jday < 10 THEN current.tm_year + 1
        ELSE current.tm_year

\* the issue time JJJHHMM in that year, in seconds since the epoch
C20_Epoch ==
    ((C20_Year - 1970) * 365 + int(SubSeq(args.fields.start, 1, 3)) - 1) * 86400
    + int(SubSeq(args.fields.start, 4, 5)) * 3600
    + int(SubSeq(args.fields.start, 6, 7)) * 60

\* C20: get_start_time_sec decodes the issue time in the UTC year current when
\* the message was made, the year before when that day of the year is below
\* 10 and the issue day above 355, the year after when that day is above 355
\* and the issue day below 10; every later call returns the same value.
C20_StartTime ==
    /\ args.self.start_time = C20_Epoch
    /\ result.op = "get_start_time_sec" => result.value = C20_Epoch

\* made on day 9 of 1971 with issue day 356, so decoded in 1970, and read
\* again in 1972
C20_Witness ==
    /\ result.op = "get_start_time_sec"
    /\ gmtime(args.at) = [tm_year |-> 1971, tm_yday |-> 9]
    /\ SubSeq(args.fields.start, 1, 3) = <<"3", "5", "6">>
    /\ gmtime(result.value) = [tm_year |-> 1970, tm_yday |-> 356]
    /\ gmtime(now).tm_year = 1972

-----------------------------------------------------------------------------
(* Properties of get_active_messages *)

\* the positions in the group of the messages that cover the county of the
\* cache and are in effect at t
C14_InEffect(group, t) ==
    { i \in 1..Len(group.messages) :
        LET m == CacheMessages[group.messages[i]]
        IN  /\ \E k \in 1..Len(m.counties) : m.counties[k] = County
            /\ m.start <= t /\ t < m.start + m.duration }

\* the latest of them
C14_Latest(group, t) ==
    group.messages[CHOOSE i \in C14_InEffect(group, t) :
                      \A j \in C14_InEffect(group, t) : j <= i]

C14_Returned == { result.value[k].msg : k \in 1..Len(result.value) }

C15_Score(x) == x.score
C15_Start(x) == CacheMessages[x.msg].start

\* the list is in descending order of score and, within a score, of start time
C15_Descending(l) ==
    \A i, j \in 1..Len(l) :
        i < j => \/ C15_Score(l[i]) > C15_Score(l[j])
                 \/ /\ C15_Score(l[i]) = C15_Score(l[j])
                    /\ C15_Start(l[i]) >= C15_Start(l[j])

\* by_score_and_time compares the messages of the list consistently and
\* transitively
C15_Consistent(l) ==
    /\ \A i, j \in 1..Len(l) :
          (by_score_and_time(l[i], l[j]) < 0) <=> (by_score_and_time(l[j], l[i]) > 0)
    /\ \A i, j, k \in 1..Len(l) :
          (by_score_and_time(l[i], l[j]) <= 0 /\ by_score_and_time(l[j], l[k]) <= 0)
              => by_score_and_time(l[i], l[k]) <= 0

\* C15 as stated: the list get_active_messages returns is in descending order
\* of score and then of start time, and by_score_and_time orders any two
\* distinct messages of it strictly, consistently and transitively.
C15_TotalOrderClaim ==
    result.op = "get_active_messages" =>
        /\ C15_Descending(result.value)
        /\ C15_Consistent(result.value)
        /\ \A i, j \in 1..Len(result.value) :
              i # j => by_score_and_time(result.value[i], result.value[j]) # 0

\* C15 amended: the list is in descending order of score and then of start
\* time, by_score_and_time compares its messages consistently and
\* transitively, and it leaves two of them unordered exactly when they have
\* the same score and the same start time.
C15_Preorder ==
    result.op = "get_active_messages" =>
        /\ C15_Descending(result.value)
        /\ C15_Consistent(result.value)
        /\ \A i, j \in 1..Len(result.value) :
              by_score_and_time(result.value[i], result.value[j]) = 0
                 <=> /\ C15_Score(result.value[i]) = C15_Score(result.value[j])
                     /\ C15_Start(result.value[i]) = C15_Start(result.value[j])

\* three messages returned: two of one score and different start times, and
\* one of a lower score
C15_Witness ==
    /\ result.op = "get_active_messages" /\ Len(result.value) = 3
    /\ C15_Score(result.value[1]) = C15_Score(result.value[2])
    /\ C15_Start(result.value[1]) > C15_Start(result.value[2])
    /\ C15_Score(result.value[2]) > C15_Score(result.value[3])

-----------------------------------------------------------------------------
(* Properties of ConfidentCharacter *)

\* C17: the merge of ConfidentCharacters is commutative and associative:
\* a + b = b + a and (a + b) + c = a + (b + c), in the character, in the
\* confidence of every bit and in the confidence of the byte.
C17_MergeCommutesAssociates ==
    result.op = "merge" =>
        /\ result.ab.char = result.ba.char
        /\ result.ab.bitwise_confidence = result.ba.bitwise_confidence
        /\ result.ab.confidence = result.ba.confidence
        /\ result.ab_c.char = result.a_bc.char
        /\ result.ab_c.bitwise_confidence = result.a_bc.bitwise_confidence
        /\ result.ab_c.confidence = result.a_bc.confidence

\* A, 0xFF and NUL were merged, the first outweighed by the second, and the
\* result is neither of the three
C17_Witness ==
    /\ result.op = "merge"
    /\ args.a.char = 65 /\ args.b.char = 255 /\ args.c.char = 0
    /\ result.ab.char = 255
    /\ result.ab_c.char \notin {0, 65, 255}

\* C18 as stated: n >= 2 copies of any H, whatever its confidences, merge
\* into H's character with n times H's confidence in every bit.
C18_CopiesClaim ==
    result.op = "copies" =>
        /\ result.value.char = args.a.char
        /\ \A i \in 1..Bits :
              result.value.bitwise_confidence[i] = result.n * args.a.bitwise_confidence[i]

\* the character of H without the bits that H holds with confidence 0
C18_ConfidentBits(h) ==
    LET keep(i) == bit(h.char, i - 1) = 1 /\ h.bitwise_confidence[i] > 0
    IN  (IF keep(1) THEN 1 ELSE 0) + (IF keep(2) THEN 2 ELSE 0)
        + (IF keep(3) THEN 4 ELSE 0) + (IF keep(4) THEN 8 ELSE 0)
        + (IF keep(5) THEN 16 ELSE 0) + (IF keep(6) THEN 32 ELSE 0)
        + (IF keep(7) THEN 64 ELSE 0) + (IF keep(8) THEN 128 ELSE 0)

\* C18 amended: n >= 2 copies of H, with confidences of 0 or more, merge into
\* n times H's confidence in every bit and into H's character less the bits
\* that are set in it with confidence 0: H's character when every bit set in
\* it has a confidence above 0.
C18_CopiesOfConfident ==
    result.op = "copies" =>
        /\ \A i \in 1..Bits :
              result.value.bitwise_confidence[i] = result.n * args.a.bitwise_confidence[i]
        /\ result.value.char = C18_ConfidentBits(args.a)
        /\ (\A i \in 1..Bits : bit(args.a.char, i - 1) = 1 => args.a.bitwise_confidence[i] > 0)
              => result.value.char = args.a.char

\* three copies of an A whose set bits have confidence 2 and whose other odd
\* bits have confidence 0
C18_Witness ==
    /\ result.op = "copies" /\ result.n = 3
    /\ args.a.char = 65 /\ args.a.bitwise_confidence[1] = 2
    /\ args.a.bitwise_confidence[2] = 0
    /\ result.value.char = 65 /\ result.value.bitwise_confidence[7] = 6

-----------------------------------------------------------------------------
(* Properties of the cache under two threads *)

\* the message is in the group that the cache holds under its event_id
C16_Present(uid) ==
    \E g \in 1..Len(messages) :
        /\ messages[g].event_id = CacheMessages[uid].event_id
        /\ \E k \in 1..Len(messages[g].messages) : messages[g].messages[k] = uid

\* C16: with add_message on the ingestion thread and the sweep of
\* _generate_events on the tick thread interleaved in any way, a thread reads
\* or writes the map of groups only while it holds the lock, and no message
\* is lost: every message whose add_message has returned is in the group under
\* its event_id unless a sweep dropped its group as expired, also when both
\* threads have finished.
C16_LockedAndNotLost ==
    /\ pc.ingest \in {"115", "116", "121", "unlock"} => messages_lock = "ingest"
    /\ pc.tick \in {"137", "131", "assign", "unlock"} => messages_lock = "tick"
    /\ ~locals.detached
    /\ \A uid \in locals.submitted : C16_Present(uid) \/ uid \in locals.dropped

\* both threads have finished: a sweep dropped one message and the other,
\* added after it, is in the cache
C16_Witness ==
    /\ pc = [ingest |-> "idle", tick |-> "idle"]
    /\ locals.todo = <<>> /\ locals.sweeps = MaxSweeps
    /\ Cardinality(locals.submitted) = MaxIngest
    /\ locals.dropped # {}
    /\ \E uid \in locals.submitted : uid \notin locals.dropped /\ C16_Present(uid)

-----------------------------------------------------------------------------
(* More properties of the SAMEMessage state machine *)

\* C29: a SAMEMessage created empty and fed through add_header never holds
\* more than 3 headers, and the arrival times of its headers do not decrease.
C29_AtMostThreeInOrder ==
    kind = "new" =>
        /\ Len(headers) <= 3
        /\ \A i, j \in 1..Len(headers) : i <= j => headers[i][3] <= headers[j][3]

\* three headers that arrived at three different times, and a fourth refused
C29_Witness ==
    /\ kind = "new" /\ Len(headers) = 3
    /\ headers[1][3] < headers[2][3] /\ headers[2][3] < headers[3][3]
    /\ ret.op = "add_header" /\ ret.raised = "ValueError"

-----------------------------------------------------------------------------
(* Properties of an EventMessageGroup *)

\* the messages of the group that pass the filter of is_effective for fips at t
C24_Passing(group, fips, t) ==
    { i \in 1..Len(group.messages) :
        LET m == CacheMessages[group.messages[i]]
        IN  /\ applies_to_fips(m, fips)
            /\ get_end_time_sec(m) > t
            /\ m.start <= t }

\* C24: is_effective with test_for_here=True never returns a message that has
\* ended at when(), has not started at when() or does not apply to fips; when
\* some message of the group passes that filter and no polygon excludes the
\* point, it returns the most recently appended message that passes.
C24_EffectiveHere ==
    (result.op = "is_effective" /\ result.test_for_here) =>
        LET group == messages[1]
            passing == C24_Passing(group, result.fips, now)
            excluded == result.latlon /\ \E i \in passing :
                            CacheMessages[group.messages[i]].polygon = "outside"
        IN  /\ result.value # <<>> =>
                \E i \in passing : group.messages[i] = result.value[1]
            /\ (passing # {} /\ ~excluded) =>
                /\ result.value # <<>>
                /\ \E i \in passing : /\ group.messages[i] = result.value[1]
                                      /\ \A j \in passing : j <= i

\* the latest message of the group has not started, an earlier one is returned
C24_Witness ==
    /\ result.op = "is_effective" /\ result.test_for_here
    /\ Len(messages[1].messages) = 3
    /\ C24_Passing(messages[1], result.fips, now) = {1, 2}
    /\ result.value = <<messages[1].messages[2]>>

\* C25: adding a message instance that is already in the group leaves the
\* message list and the areas unchanged; every add_message leaves the earlier
\* messages where they were, and areas is the union of get_areas() over the
\* messages stored.
C25_AddMessage ==
    [][ result'.op = "add_message" =>
          LET old == messages[1]
              new == messages'[1]
              uid == result'.uid
          IN  /\ (\E i \in 1..Len(old.messages) : old.messages[i] = uid) => new = old
              /\ Len(old.messages) <= Len(new.messages)
              /\ SubSeq(new.messages, 1, Len(old.messages)) = old.messages
              /\ new.areas = UNION { get_areas(new.messages[i]) :
                                        i \in 1..Len(new.messages) } ]_vars

\* a message was added a second time to a group of three messages and two areas
C25_Witness ==
    /\ result.op = "add_message" /\ result.raised = "none"
    /\ Len(messages[1].messages) = 3
    /\ messages[1].messages[1] = result.uid
    /\ messages[1].areas = {County, Elsewhere}

\* C28: is_effective with test_for_here=False returns a message only if
\* is_effective with test_for_here=True returns none for the same latlon, fips
\* and time, so a group is never reported both here and elsewhere.
C28_HereOrElsewhere ==
    (result.op = "is_effective" /\ ~result.test_for_here /\ result.value # <<>>) =>
        is_effective(messages[1], result.latlon, result.fips, TRUE, now) = <<>>

\* a neighbouring area's message is reported for elsewhere while the group
\* holds a message for the county that is no longer in effect
C28_Witness ==
    /\ result.op = "is_effective" /\ ~result.test_for_here
    /\ result.fips = County
    /\ result.value = <<9>>
    /\ \E i \in 1..Len(messages[1].messages) :
          applies_to_fips(CacheMessages[messages[1].messages[i]], County)

-----------------------------------------------------------------------------
(* Properties of Radio's event dispatch *)

\* C23: when an event is dispatched and a listener raises an exception, the
\* exception is caught (and logged), every listener is still invoked with the
\* event in registration order, and no exception reaches the caller.
C23_ListenersIsolated ==
    (result.op = "pass_along_user_events" /\ result.event \in {"SAMEEvent", "AlertToneCheck"}) =>
        LET event_listeners == args.event_listeners
            raising == { k \in DOMAIN event_listeners : event_listeners[k] # "returns" }
        IN  /\ result.log.raised = "none"
            /\ result.log.invoked = [k \in DOMAIN event_listeners |-> k]
            /\ Len(result.log.logged) = Cardinality(raising)

\* the first of three listeners raised and the two after it were invoked
C23_Witness ==
    /\ result.op = "pass_along_user_events" /\ result.event = "SAMEEvent"
    /\ Len(args.event_listeners) = 3
    /\ args.event_listeners[1] = "ValueError"
    /\ args.event_listeners[3] = "returns"
    /\ result.log.invoked = <<1, 2, 3>>

-----------------------------------------------------------------------------
(* Properties of make_new_scores on two threads *)

\* C30: with update_score handled on the ingestion thread and on the tick
\* thread in any interleaving, no new_score carries the score of the new_score
\* before it, and once both handlers have returned the remembered score is the
\* score last emitted.
C30_NoRepeatClaim ==
    /\ \A i \in 1..(Len(result.emitted) - 1) : result.emitted[i] # result.emitted[i + 1]
    /\ (\A th \in ScoreThreads : pc[th] = "idle") => old_score = last_emitted

-----------------------------------------------------------------------------
(* Properties of the reconciliation *)

\* C26: when _reconcile_word accepts a candidate of length L at index start,
\* with start + L <= len(word), the word returned has the length of the input
\* word, holds the candidate on [start, start + L) and the input word at every
\* other position, and the confidences outside [start, start + L) are
\* unchanged; when it does not accept, word and confidences are returned
\* unchanged.
C26_FrameClaim ==
    (/\ result.op = "_reconcile_word"
     /\ args.choices # <<>>
     /\ args.start + Len(args.choices[1].c) <= Len(args.word)) =>
        LET start == args.start
            end == start + Len(args.choices[1].c)
            outside == { i \in 1..Len(args.word) : i <= start \/ i > end }
        IN  /\ result.raised = "none"
            /\ IF result.matched
               THEN /\ Len(result.word) = Len(args.word)
                    /\ \E k \in DOMAIN args.choices :
                          SubSeq(result.word, start + 1, end) = args.choices[k].c
                    /\ \A i \in outside : result.word[i] = args.word[i]
                    /\ Len(result.confidences) = Len(args.confidences)
                    /\ \A i \in outside : result.confidences[i] = args.confidences[i]
               ELSE /\ result.word = args.word
                    /\ result.confidences = args.confidences

\* the lengths a header can have: 38, 45, 52, ... up to n
C27_Lengths(n) == { l \in 38..n : (l - 38) % 7 = 0 }

\* the distance of bytes[l-23:l] to the skeleton, as line 317 measures it
C27_Distance(l) ==
    _word_distance(SubSeq(args.message, l - 22, l), args.confidences,
                   _END_SEQUENCE, ord("_"))

\* the frame of a header of l bytes
C27_Frame(l) ==
    [i \in 1..l |->
        IF i > l - 23 THEN _END_SEQUENCE[i - (l - 23)]
        ELSE IF i \in {1, 5} \/ (i >= 9 /\ (i - 9) % 7 = 0) THEN 45
        ELSE 95]

\* C27: for a merged message of at least 38 bytes _truncate returns a message
\* of length L from 38, 45, 52, ..., L <= len, that minimises the distance of
\* bytes[L-23:L] to the skeleton, the smallest such L; the confidences
\* returned have length L, every frame position that is no wildcard holds the
\* frame character, and the assertion does not fail; a shorter input is
\* returned unchanged.
C27_Truncated ==
    result.op = "_truncate" =>
        IF Len(args.message) < 38
        THEN /\ result.raised = "none"
             /\ result.message = args.message
             /\ result.confidences = args.confidences
        ELSE LET L == Len(result.message)
                 lengths == C27_Lengths(Len(args.message))
             IN  /\ result.raised = "none"
                 /\ L \in lengths
                 /\ \A o \in lengths :
                       /\ C27_Distance(L) <= C27_Distance(o)
                       /\ C27_Distance(L) = C27_Distance(o) => L <= o
                 /\ Len(result.confidences) = L
                 /\ \A i \in 1..L :
                       C27_Frame(L)[i] # 95 => result.message[i] = C27_Frame(L)[i]

\* of two lengths that are equally near the skeleton the shorter one is taken,
\* and a byte of the frame that was lost is laid in again
C27_Witness ==
    /\ result.op = "_truncate"
    /\ Len(args.message) >= 45
    /\ Len(result.message) = 38
    /\ C27_Distance(38) = C27_Distance(45)
    /\ \E i \in 1..38 : args.message[i] = 0 /\ result.message[i] # 0

-----------------------------------------------------------------------------
(* Properties of averaging the headers *)

\* the header is a copy of a canonical header with confidence 9 on every byte
C21_CleanCopy(header) ==
    /\ header[1] \in {AverageHeaders[1], AverageHeaders[2]}
    /\ header[1] = args.headers[1][1]
    /\ \A i \in 1..Len(header[2]) : header[2][i] = 9

\* C21: averaging three identical copies of a clean canonical header, each
\* with confidence 9 on every byte, returns the header itself with
\* confidence 9 at every position
C21_IdenticalCopiesClaim ==
    (/\ result.op = "average_message"
     /\ args.assignable
     /\ Len(args.headers) = 3
     /\ \A h \in 1..3 : C21_CleanCopy(args.headers[h]))
    => /\ result.raised = "none"
       /\ result.value[1] = unicodify(args.headers[1][1])
       /\ result.value[2] = [i \in 1..Len(args.headers[1][1]) |-> 9]

\* C22: for one, two or three headers of at least 38 bytes with a confidence
\* of 0 to 9 for every byte, average_message returns a string and as many
\* confidences as the string has characters, each from 0 to 9
C22_AlignedClaim ==
    (/\ result.op = "average_message"
     /\ args.assignable
     /\ Len(args.headers) \in 1..3
     /\ \A h \in 1..Len(args.headers) :
          /\ Len(args.headers[h][1]) >= 38
          /\ Len(args.headers[h][2]) = Len(args.headers[h][1])
          /\ \A i \in 1..Len(args.headers[h][2]) : args.headers[h][2][i] \in 0..9)
    => /\ result.raised = "none"
       /\ Len(result.value[2]) = Len(result.value[1])
       /\ \A i \in 1..Len(result.value[2]) : result.value[2][i] \in 0..9

====
